---- MODULE Spec2Model ----
(***************************************************************************)
(* Model of the yt-dlp glue layer of Share-2-Archive-Today: the video and  *)
(* audio download orchestrators (ytdlp_downloader.py, ytdlp_video_handler  *)
(* .py, ytdlp_audio_handler.py, ytdlp_audio_strategies.py), their shared   *)
(* cancellation flags and the extraction backend they drive.               *)
(*                                                                         *)
(* One host thread issues requests and runs them statement block by        *)
(* statement block; a second thread may set a cancellation flag at any     *)
(* time.  The backend (yt_dlp.YoutubeDL.extract_info) is the environment:  *)
(* every call ends by raising, by returning nothing usable, or by leaving  *)
(* a file.                                                                 *)
(***************************************************************************)
EXTENDS Integers, Sequences, FiniteSets, TLC

\* Number of requests the host issues in one behaviour.
MaxRequests == 2

\* Python's None, as it is written into a result and as str(None) prints it.
None == "None"

\* ------------------------------------------------------------------------
\* Requests, flags, inputs
\* ------------------------------------------------------------------------

DV == "VideoDownloader.download_video"
DA == "VideoDownloader.download_audio"
AH == "AudioHandler.download_audio"
VS == "VideoHandler.download_video_with_strategies"
VD == "VideoHandler.download_dash_video"

Kinds == {DV, DA, AH, VS, VD}
VideoKinds == {DV, VS, VD}
AudioKinds == {DA, AH}
\* The requests that reset the flag when they start.
ResettingKinds == {DV, DA, AH}

\* The objects that carry a `cancelled` attribute.
FlagOwners == {"VideoDownloader", "AudioHandler", "AudioDownloadStrategies", "VideoHandler"}

\* The flag the host sets to cancel a request of this kind: the attribute of
\* the object the request was called on.
OrchestratorFlag(k) ==
    CASE k \in {DV, DA} -> "VideoDownloader"
      [] k = AH -> "AudioHandler"
      [] OTHER -> "VideoHandler"

\* The flag the request's loops read (`if self.cancelled:`).
PolledFlag(k) ==
    CASE k \in {DV, DA} -> "VideoDownloader"
      [] k = AH -> "AudioDownloadStrategies"
      [] OTHER -> "VideoHandler"

\* Quality tokens the host passes; "4k" is in no quality map.
QualityTokens == {"720p", "best", "4k"}

\* The format_processor argument of download_video_with_strategies: the
\* repository's FormatProcessor, or a caller's object whose
\* get_quality_based_format accepts prefer_merged.
FormatProcessors == {"FormatProcessor", "PreferMergedProcessor"}

\* Texts of the exceptions the backend raises.
Messages == {"Download cancelled by user", "HTTP Error 403: Forbidden"}

TypeErrorText ==
    "FormatProcessor.get_quality_based_format() got an unexpected keyword argument 'prefer_merged'"

\* ------------------------------------------------------------------------
\* Selector expressions
\* ------------------------------------------------------------------------

VideoDownloader_get_quality_based_format(quality) ==
    CASE quality = "2160p" -> "best[height<=2160]"
      [] quality = "1440p" -> "best[height<=1440]"
      [] quality = "1080p" -> "best[height<=1080]"
      [] quality = "720p" -> "best[height<=720]"
      [] quality = "480p" -> "best[height<=480]"
      [] quality = "360p" -> "best[height<=360]"
      [] quality = "worst" -> "worst"
      [] quality = "best" -> "best"
      [] quality = "audio_mp3" -> "bestaudio[ext=mp3]/bestaudio"
      [] quality = "audio_aac" -> "bestaudio[ext=m4a]/bestaudio[ext=aac]/bestaudio"
      [] OTHER -> "best"

FormatProcessor_get_quality_based_format_NoDefault(quality) ==
    IF quality = "best" THEN "best" ELSE "worst"

FormatProcessor_get_quality_based_format(quality) ==
    CASE quality = "2160p" -> "best[height<=2160]/best"
      [] quality = "1440p" -> "best[height<=1440]/best"
      [] quality = "1080p" -> "best[height<=1080]/best"
      [] quality = "720p" -> "best[height<=720]/best"
      [] quality = "480p" -> "best[height<=480]/best"
      [] quality = "360p" -> "best[height<=360]/best"
      [] quality = "worst" -> "worst"
      [] quality = "best" -> "best"
      [] quality = "audio_mp3" -> "bestaudio[ext=mp3]/bestaudio"
      [] quality = "audio_aac" -> "bestaudio[ext=m4a]/bestaudio[ext=aac]/bestaudio"
      [] OTHER -> "best"

\* get_quality_based_format(quality, prefer_merged=True) as the handlers call
\* it: FormatProcessor's method takes no prefer_merged and raises TypeError.
PreferMergedCall(fp, quality) ==
    IF fp = "FormatProcessor"
    THEN [raised |-> TRUE, value |-> TypeErrorText]
    ELSE [raised |-> FALSE, value |-> FormatProcessor_get_quality_based_format(quality)]

ENABLE_FALLBACKS == FALSE

\* format_strategies of VideoDownloader.download_video.
DownloaderStrategies(quality) ==
    <<VideoDownloader_get_quality_based_format(quality), "best", "bestvideo">>

\* format_strategies of VideoHandler.download_video_with_strategies.
HandlerStrategies(video_format) ==
    IF ENABLE_FALLBACKS
    THEN <<video_format, "bestvideo+bestaudio/best", "best">>
    ELSE <<video_format>>

\* audio_format_strategies of VideoDownloader._download_separate_audio.
SeparateAudioStrategies ==
    << "bestaudio",
       "bestaudio[ext=m4a]/bestaudio[ext=aac]/bestaudio[ext=mp3]/bestaudio",
       "bestaudio[protocol*=dash]/bestaudio",
       "bestaudio[protocol*=m3u8]/bestaudio",
       "bestaudio[ext=m4a]/bestaudio",
       "bestaudio[ext=aac]/bestaudio",
       "bestaudio[ext=mp3]/bestaudio" >>

\* audio_only_formats, tier 1 of both audio orchestrators.
AudioOnlyFormats ==
    << "bestaudio",
       "bestaudio[ext=m4a]/bestaudio[ext=aac]/bestaudio[ext=mp3]/bestaudio",
       "bestaudio[ext=m4a]/bestaudio",
       "bestaudio[ext=aac]/bestaudio",
       "bestaudio[ext=mp3]/bestaudio",
       "bestaudio[ext=opus]/bestaudio",
       "bestaudio[ext=ogg]/bestaudio",
       "bestaudio[protocol*=dash]/bestaudio",
       "bestaudio[protocol*=m3u8]/bestaudio" >>

\* dash_audio_formats, tier 2 of both audio orchestrators.
DashAudioFormats ==
    << "bestaudio",
       "bestaudio[protocol*=dash]/bestaudio",
       "bestaudio[protocol*=m3u8]/bestaudio",
       "bestaudio[protocol*=dash][ext=m4a]/bestaudio[protocol*=dash]/bestaudio",
       "bestaudio[protocol*=m3u8][ext=m4a]/bestaudio[protocol*=m3u8]/bestaudio",
       "bestaudio[ext=m4a]/bestaudio",
       "bestaudio[ext=aac]/bestaudio",
       "bestaudio[ext=mp3]/bestaudio" >>

\* The selector of the tier-3 download.
ExtractionFormat == "best[height<=720]"

\* ------------------------------------------------------------------------
\* Files and backend outcomes
\* ------------------------------------------------------------------------

\* Files a download can leave: the path is base \o ext, the codecs are those
\* of requested_downloads[0] (a name, 'none', or the empty string some
\* extractors report for a stream the file lacks), head is what the first
\* bytes of the file are.
Files ==
    { [base |-> "/out/clip", ext |-> ".mp4", vcodec |-> "avc1", acodec |-> "mp4a",
       size |-> 4096, head |-> "ftyp"],
      [base |-> "/out/clip", ext |-> ".m4v", vcodec |-> "avc1", acodec |-> "none",
       size |-> 4096, head |-> "ftyp"],
      [base |-> "/out/mute", ext |-> ".m4v", vcodec |-> "avc1", acodec |-> "",
       size |-> 4096, head |-> "ftyp"],
      [base |-> "/out/clip", ext |-> ".m4a", vcodec |-> "none", acodec |-> "mp4a",
       size |-> 2048, head |-> "ftyp"],
      [base |-> "/out/raw", ext |-> ".mp4", vcodec |-> "none", acodec |-> "mp4a",
       size |-> 2048, head |-> "adts"],
      [base |-> "/out/blob", ext |-> ".m4a", vcodec |-> "none", acodec |-> "none",
       size |-> 512, head |-> "other"] }

NoFile == [base |-> None, ext |-> "", vcodec |-> "none", acodec |-> "none",
           size |-> 0, head |-> "other"]

PathOf(f) == f.base \o f.ext

\* How a download call (extract_info(url, download=True)) ends:
\*   raise         the backend raises, with text msg
\*   no_info       it returns None or an info without requested_downloads
\*   missing_file  requested_downloads[0] names no file that exists
\*   file          requested_downloads[0] names a file that exists
Outcomes ==
    [kind : {"raise"}, msg : Messages, file : {NoFile}]
    \cup [kind : {"no_info", "missing_file"}, msg : {None}, file : {NoFile}]
    \cup [kind : {"file"}, msg : {None}, file : Files]

NoOutcome == [kind |-> "none", msg |-> None, file |-> NoFile]

\* How a metadata query (extract_info(url, download=False)) ends.
MetaOutcomes == {"formats", "no_info", "raise"}

\* ------------------------------------------------------------------------
\* Result dictionaries and error texts
\* ------------------------------------------------------------------------

CancelledError == "Download cancelled by user"

\* create_result_dict of ytdlp_utils, with every default written out.
create_result_dict(success, error, file_path, video_path, audio_path, separate_av, needs_extraction, file_size) ==
    [success |-> success, error |-> error, file_path |-> file_path,
     video_path |-> video_path, audio_path |-> audio_path,
     separate_av |-> separate_av, needs_extraction |-> needs_extraction,
     file_size |-> file_size]

\* The dictionaries VideoDownloader.download_video and _download_separate_audio
\* build inline: they have no needs_extraction key.
DownloaderVideoDict(success, error, file_path, video_path, audio_path, separate_av, file_size) ==
    [success |-> success, error |-> error, file_path |-> file_path,
     video_path |-> video_path, audio_path |-> audio_path,
     separate_av |-> separate_av, file_size |-> file_size]

\* VideoDownloader._cancelled_result.
cancelled_result ==
    create_result_dict(FALSE, CancelledError, None, None, None, FALSE, FALSE, 0)

HandlerCancelledResult ==
    create_result_dict(FALSE, CancelledError, None, None, None, FALSE, FALSE, 0)

AllStrategiesFailedError_Raw(last) == last

AllStrategiesFailedError(last) ==
    "All download strategies failed. Last error: " \o last

PrimaryStrategyFailedError(last) ==
    "Primary download strategy failed: " \o last

SeparateAudioFailedError(last) ==
    "Failed to download separate audio stream. All strategies failed. Last error: " \o last

DashFailedError(e) == "DASH download failed: " \o e

NoAudioFormatsError ==
    "No audio formats available and could not download video for extraction"

\* ------------------------------------------------------------------------
\* Classification of a downloaded file
\* ------------------------------------------------------------------------

ContainerExtensions == {".mp4", ".mkv", ".avi", ".mov", ".webm", ".flv"}
PureAudioExtensions == {".mp3", ".aac", ".m4a", ".wav", ".ogg"}

\* str.lower() on an extension.
Lower(ext) == IF ext = ".M4A" THEN ".m4a" ELSE ext

\* has_video / has_audio of VideoDownloader.download_video.
DownloaderHasAudio(f) ==
    (f.acodec \notin {"none", None, "null"}) \/ (Lower(f.ext) \in ContainerExtensions)
DownloaderHasVideo(f) ==
    (f.vcodec \notin {"none", None, "null"}) \/ (Lower(f.ext) \notin PureAudioExtensions)

\* has_video / has_audio of VideoHandler._analyze_downloaded_file.
HandlerHasAudio(f) ==
    (f.acodec \notin {"none", None, "null", ""}) \/ (Lower(f.ext) \in ContainerExtensions)
HandlerHasVideo(f) ==
    (f.vcodec \notin {"none", None, "null", ""}) \/ (Lower(f.ext) \notin PureAudioExtensions)

\* VideoHandler._analyze_downloaded_file for a file that exists.
analyze_downloaded_file(f) ==
    IF HandlerHasVideo(f) /\ ~HandlerHasAudio(f)
    THEN [success |-> TRUE, error |-> None, file_path |-> PathOf(f),
          video_path |-> PathOf(f), audio_path |-> None, separate_av |-> TRUE,
          needs_extraction |-> FALSE, file_size |-> f.size,
          needs_audio_extraction |-> TRUE]
    ELSE create_result_dict(TRUE, None, PathOf(f), None, None, FALSE, FALSE, f.size)

\* ------------------------------------------------------------------------
\* Audio container validation
\* ------------------------------------------------------------------------

\* AudioValidator._repair_audio_container and _wrap_aac_in_m4a: an ADTS
\* stream is renamed to <base>.m4a, anything else keeps its path.
repair_audio_container(f) ==
    IF f.head = "adts" THEN f.base \o ".m4a" ELSE PathOf(f)

\* AudioValidator.validate_audio_file (VideoDownloader._validate_audio_file
\* is the same code): the path the caller reports.
validate_audio_file(f) ==
    IF f.size < 1024 THEN PathOf(f)
    ELSE IF f.ext \in {".m4a", ".mp4"}
         THEN IF f.head = "ftyp" THEN PathOf(f) ELSE repair_audio_container(f)
         ELSE PathOf(f)

AudioSuccessResult_Flagged(f) ==
    create_result_dict(TRUE, None, validate_audio_file(f), None, None, FALSE, TRUE, f.size)

\* The success dictionary of a tier-1 or tier-2 audio download.
AudioSuccessResult(f) ==
    create_result_dict(TRUE, None, validate_audio_file(f), None, None, FALSE, FALSE, f.size)

ExtractionResult_NoFlag(f) ==
    create_result_dict(TRUE, None, PathOf(f), None, None, FALSE, FALSE, f.size)

\* The success dictionary of the tier-3 download.
ExtractionResult(f) ==
    create_result_dict(TRUE, None, PathOf(f), None, None, FALSE, TRUE, f.size)

\* ------------------------------------------------------------------------
\* State
\* ------------------------------------------------------------------------

VARIABLES
    pc,           \* where the host thread is: idle, entry, meta, check, start3,
                  \* inflight, done (returned), raised (an exception left the call)
    kind,         \* the request being run
    quality,      \* its quality token
    fp,           \* its format_processor argument
    phase,        \* the loop it is in: main, sep_audio, tier1, tier2, tier3
    idx,          \* the index (from 1) of the loop's current strategy
    cancelled,    \* the cancelled attribute of each object
    last_error,   \* the loop's last_error local
    video_file,   \* the video-only file _download_separate_audio was given
    calls,        \* the download calls the request made to the backend
    outcome,      \* how the latest download call ended
    result,       \* what the request returned
    reqCount,     \* requests issued so far
    setBefore,    \* the orchestrator's flag was set before the first attempt
    setInWindow,  \* the polled flag was set, and not cleared since, between
                  \* the request's reset and its first attempt
    meta,         \* how the request's latest metadata query ended, none before it
    lateCancel    \* the orchestrator's flag was set after the request was
                  \* called and before it returned

vars == <<pc, kind, quality, fp, phase, idx, cancelled, last_error, video_file,
          calls, outcome, result, reqCount, setBefore, setInWindow, meta,
          lateCancel>>

\* The state of the other components: the format catalog normalizer, the
\* audio file validator and the progress tracker.
VARIABLES
    catalog,          \* the raw format list (info['formats']) being normalized
    normalizer,       \* which normalizer ran: none, VideoDownloader, FormatProcessor
    formats,          \* the normalized list it returned
    fs,               \* the output directory: what is at each path
    vinput,           \* the path first handed to validate_audio_file
    vreturns,         \* the paths the successive validate_audio_file calls returned
    vsnaps,           \* the directory as each of those calls left it
    callback,         \* whether the ProgressTracker was given a callback
    now,              \* time.time(), in tenths of a second
    last_update_time, \* ProgressTracker.last_update_time, in tenths of a second
    events,           \* the progress events yt-dlp delivered: status, time
    forwarded,        \* the events the tracker passed to its callback
    hooks,            \* the __call__ invocations in flight, one per backend
                      \* thread: where it is, its event, the time it read
    afile,            \* the file and download_info handed to the classifier
    analysis,         \* what _analyze_downloaded_file returned for it
    selections        \* the get_quality_based_format calls made: selector,
                      \* quality token, expression returned

normVars == <<catalog, normalizer, formats>>
validatorVars == <<fs, vinput, vreturns, vsnaps>>
progressVars == <<callback, now, last_update_time, events, forwarded, hooks>>
classifierVars == <<afile, analysis>>
selectorVars == <<selections>>
handlerVars == <<classifierVars, selectorVars>>
auxVars == <<normVars, validatorVars, progressVars, handlerVars>>

\* The normalizer has not been called.
NormalizerIdle == catalog = <<>> /\ normalizer = "none" /\ formats = <<>>

\* The validator has not been called.
ValidatorIdle == fs = <<>> /\ vinput = None /\ vreturns = <<>> /\ vsnaps = <<>>

\* No progress tracker has been built.
ProgressIdle ==
    /\ callback = FALSE /\ now = 0 /\ last_update_time = 0
    /\ events = <<>> /\ forwarded = <<>> /\ hooks = <<>>

NoResult == [returned |-> FALSE]

\* The classifier has not been called.
ClassifierIdle == afile = NoFile /\ analysis = NoResult

\* The format selector has not been called.
SelectorIdle == selections = <<>>

\* The VideoHandler helpers have not been called.
HandlerIdle == ClassifierIdle /\ SelectorIdle

\* No request has been issued.
DownloadIdle ==
    /\ pc = "idle"
    /\ kind = DV
    /\ quality = "best"
    /\ fp = "FormatProcessor"
    /\ phase = "main"
    /\ idx = 1
    /\ cancelled = [o \in FlagOwners |-> FALSE]
    /\ last_error = None
    /\ video_file = NoFile
    /\ calls = <<>>
    /\ outcome = NoOutcome
    /\ result = NoResult
    /\ reqCount = 0
    /\ setBefore = FALSE
    /\ setInWindow = FALSE
    /\ meta = "none"
    /\ lateCancel = FALSE

Init ==
    /\ DownloadIdle
    /\ NormalizerIdle
    /\ ValidatorIdle
    /\ ProgressIdle
    /\ HandlerIdle

\* The strategy list of the loop the request is in.
StrategyList(k, ph, q) ==
    CASE k = DV /\ ph = "main" -> DownloaderStrategies(q)
      [] k = DV /\ ph = "sep_audio" -> SeparateAudioStrategies
      [] k = VS -> HandlerStrategies(FormatProcessor_get_quality_based_format(q))
      [] k \in AudioKinds /\ ph = "tier1" -> AudioOnlyFormats
      [] k \in AudioKinds /\ ph = "tier2" -> DashAudioFormats
      [] OTHER -> <<ExtractionFormat>>

\* The request has been called and has not returned.
RequestRunning == pc \notin {"idle", "done", "raised"}

\* The request has been called and has started no attempt yet.
BeforeFirstAttempt ==
    /\ calls = <<>>
    /\ \/ pc \in {"entry", "check"}
       \/ pc = "meta" /\ kind \in AudioKinds

\* The quality (or audio format) tokens the host passes to a request.
TokensOf(k) == IF k \in AudioKinds THEN {"mp3"} ELSE QualityTokens

\* ------------------------------------------------------------------------
\* The host thread: calling a request
\* ------------------------------------------------------------------------

\* The flags a request of kind k clears in its first statements.
FlagsResetBy(k) ==
    CASE k \in {DV, DA} -> {"VideoDownloader"}
      [] k = AH -> {"AudioHandler", "AudioDownloadStrategies"}
      [] OTHER -> {}

\* A request is called while another one is running on the same object
\* (the module API hands every caller the one VideoDownloader, and nothing
\* keeps a second call out): its first statements clear the flags, whatever
\* the running request is doing.  The object holds no other attribute the
\* two requests share, so this is all the running request sees of the other
\* one; the other request is itself a request of this model, with the first
\* as its environment.
OverlappingCall(k) ==
    /\ RequestRunning
    /\ cancelled' = [o \in FlagOwners |->
                       IF o \in FlagsResetBy(k) THEN FALSE ELSE cancelled[o]]
    /\ setInWindow' =
         (setInWindow /\ ~(BeforeFirstAttempt /\ PolledFlag(kind) \in FlagsResetBy(k)))
    /\ UNCHANGED <<pc, kind, quality, fp, phase, idx, last_error, video_file,
                   calls, outcome, result, reqCount, setBefore>>
    /\ UNCHANGED <<meta, lateCancel>>
    /\ UNCHANGED auxVars

\* A request is called with no other one running: its frame is set up, its
\* first statements come next.
StartRequest(k, q, p) ==
    /\ ~RequestRunning
    /\ reqCount < MaxRequests
    /\ pc' = "entry"
    /\ kind' = k
    /\ quality' = q
    /\ fp' = p
    /\ phase' = IF k \in AudioKinds THEN "tier1" ELSE "main"
    /\ idx' = 1
    /\ last_error' = None
    /\ video_file' = NoFile
    /\ calls' = <<>>
    /\ outcome' = NoOutcome
    /\ result' = NoResult
    /\ reqCount' = reqCount + 1
    /\ setBefore' = cancelled[OrchestratorFlag(k)]
    /\ setInWindow' = IF k \in ResettingKinds THEN FALSE ELSE cancelled[PolledFlag(k)]
    /\ meta' = "none"
    /\ lateCancel' = FALSE
    /\ UNCHANGED cancelled
    /\ UNCHANGED auxVars

\* A call of a request of kind k, from any thread and at any time: the
\* functions take no lock and test nothing before their first statement.
Call(k, q, p) ==
    \/ StartRequest(k, q, p)
    \/ OverlappingCall(k)

\* download_video, first statements: reset the flag, build the strategies.
BeginDownloadVideo ==
    /\ pc = "entry" /\ kind = DV
    /\ cancelled' = [cancelled EXCEPT !["VideoDownloader"] = FALSE]
    /\ pc' = "check"
    /\ UNCHANGED <<kind, quality, fp, phase, idx, last_error, video_file, calls,
                   outcome, result, reqCount, setBefore, setInWindow>>
    /\ UNCHANGED <<meta, lateCancel>>
    /\ UNCHANGED auxVars

\* download_audio, first statement: reset the flag.
BeginDownloadAudio ==
    /\ pc = "entry" /\ kind = DA
    /\ cancelled' = [cancelled EXCEPT !["VideoDownloader"] = FALSE]
    /\ pc' = "meta"
    /\ UNCHANGED <<kind, quality, fp, phase, idx, last_error, video_file, calls,
                   outcome, result, reqCount, setBefore, setInWindow>>
    /\ UNCHANGED <<meta, lateCancel>>
    /\ UNCHANGED auxVars

\* AudioHandler.download_audio, first statements: reset its own flag and the
\* flag of its AudioDownloadStrategies.
BeginAudioHandler ==
    /\ pc = "entry" /\ kind = AH
    /\ cancelled' = [cancelled EXCEPT !["AudioHandler"] = FALSE,
                                      !["AudioDownloadStrategies"] = FALSE]
    /\ pc' = "meta"
    /\ UNCHANGED <<kind, quality, fp, phase, idx, last_error, video_file, calls,
                   outcome, result, reqCount, setBefore, setInWindow>>
    /\ UNCHANGED <<meta, lateCancel>>
    /\ UNCHANGED auxVars

\* download_video_with_strategies, first statement: the call of
\* get_quality_based_format(quality, prefer_merged=True), outside any try.
BeginStrategies ==
    /\ pc = "entry" /\ kind = VS
    /\ LET r == PreferMergedCall(fp, quality) IN
         IF r.raised
         THEN /\ pc' = "raised"
              /\ result' = [returned |-> FALSE, exception |-> r.value]
         ELSE /\ pc' = "check"
              /\ result' = result
    /\ UNCHANGED <<kind, quality, fp, phase, idx, cancelled, last_error,
                   video_file, calls, outcome, reqCount, setBefore, setInWindow>>
    /\ UNCHANGED <<meta, lateCancel>>
    /\ UNCHANGED auxVars

\* download_dash_video: it builds a FormatProcessor itself and calls
\* get_quality_based_format(quality, prefer_merged=True) inside its outer
\* try; the TypeError is caught there, so the strategy loop is never entered.
DownloadDashVideo ==
    /\ pc = "entry" /\ kind = VD
    /\ LET r == PreferMergedCall("FormatProcessor", quality) IN
         /\ r.raised
         /\ result' = create_result_dict(FALSE, DashFailedError(r.value), None,
                                         None, None, FALSE, FALSE, 0)
    /\ pc' = "done"
    /\ UNCHANGED <<kind, quality, fp, phase, idx, cancelled, last_error,
                   video_file, calls, outcome, reqCount, setBefore, setInWindow>>
    /\ UNCHANGED <<meta, lateCancel>>
    /\ UNCHANGED auxVars

\* The metadata query raises out of its statements: the backend raised, or
\* the audio orchestrators called info.get on the None it returned.
MetaQueryRaises(k, m) == m = "raise" \/ (m = "no_info" /\ k \in AudioKinds)

\* str(e) of that exception.
MetaErrorText(m) ==
    IF m = "raise" THEN "HTTP Error 403: Forbidden"
    ELSE "'NoneType' object has no attribute 'get'"

AfterMetaQuery_Propagate(k, m) ==
    IF MetaQueryRaises(k, m) THEN "fail" ELSE "continue"

\* What the request does after the query: the try around it catches every
\* exception and only logs it, so the request always continues.
AfterMetaQuery(k, m) == "continue"

\* The outer `except Exception as e` of a request: the failure that carries
\* str(e).
OuterExceptResult(k, msg) ==
    IF k = DV
    THEN DownloaderVideoDict(FALSE, msg, None, None, None, FALSE, 0)
    ELSE create_result_dict(FALSE, msg, None, None, None, FALSE, FALSE, 0)

\* The metadata query (extract_info(url, download=False)) and its handling:
\* the audio orchestrators make it once before tier 1, download_video makes
\* it in every attempt before the download; whatever it returns or raises is
\* only logged.
MetaQuery(m) ==
    /\ pc = "meta"
    /\ meta' = m
    /\ IF AfterMetaQuery(kind, m) = "fail"
       THEN /\ pc' = "done"
            /\ result' = OuterExceptResult(kind, MetaErrorText(m))
            /\ calls' = calls
       ELSE /\ result' = result
            /\ IF kind = DV
               THEN /\ pc' = "inflight"
                    /\ calls' = Append(calls, [phase |-> phase,
                                               expr |-> StrategyList(kind, phase, quality)[idx],
                                               res |-> "pending"])
               ELSE /\ pc' = "check"
                    /\ calls' = calls
    /\ UNCHANGED <<kind, quality, fp, phase, idx, cancelled, last_error,
                   video_file, outcome, reqCount, setBefore, setInWindow,
                   lateCancel>>
    /\ UNCHANGED auxVars

\* ------------------------------------------------------------------------
\* The host thread: the strategy loops
\* ------------------------------------------------------------------------

\* `for strategy in strategies`: after strategy i comes another one.
HasNext_OffByOne(i, list) == i + 1 < Len(list)
HasNext(i, list) == i < Len(list)

\* The tier AudioHandler.download_audio goes to when a tier returned None.
NextTier_SkipDash(ph) == "tier3"
NextTier(ph) == IF ph = "tier1" THEN "tier2" ELSE "tier3"

\* `if self.cancelled:` at the top of a loop iteration.
BoundaryCancelled_NotFirst == cancelled[PolledFlag(kind)] /\ idx > 1
BoundaryCancelled_MainOnly == cancelled[PolledFlag(kind)] /\ phase = "main"
BoundaryCancelled == cancelled[PolledFlag(kind)]

\* The entry a download call adds to the backend's log.
CallEntry(ph, expr) == [phase |-> ph, expr |-> expr, res |-> "pending"]

\* calls with the latest call marked as failed ("fail") or as having left a
\* usable file ("ok").
MarkLast(res) == [calls EXCEPT ![Len(calls)].res = res]

\* What a loop returns when it reads its flag set at the top of an iteration.
BoundaryCancelledResult(k, ph) ==
    CASE k = DV /\ ph = "main" ->
           DownloaderVideoDict(FALSE, CancelledError, None, None, None, FALSE, 0)
      [] k = DV \/ k = DA -> cancelled_result
      [] OTHER -> HandlerCancelledResult

\* `if self.cancelled: return <cancelled>` at the top of a loop iteration.
CancelledAtBoundary ==
    /\ pc = "check"
    /\ BoundaryCancelled
    /\ result' = BoundaryCancelledResult(kind, phase)
    /\ pc' = "done"
    /\ UNCHANGED <<kind, quality, fp, phase, idx, cancelled, last_error,
                   video_file, calls, outcome, reqCount, setBefore, setInWindow>>
    /\ UNCHANGED <<meta, lateCancel>>
    /\ UNCHANGED auxVars

\* The flag reads unset at the top of an iteration: the attempt starts.  Only
\* download_video makes a metadata query before its download call.
StartAttempt ==
    /\ pc = "check"
    /\ ~BoundaryCancelled
    /\ IF kind = DV /\ phase = "main"
       THEN /\ pc' = "meta"
            /\ calls' = calls
       ELSE /\ pc' = "inflight"
            /\ calls' = Append(calls,
                               CallEntry(phase, StrategyList(kind, phase, quality)[idx]))
    /\ UNCHANGED <<kind, quality, fp, phase, idx, cancelled, last_error,
                   video_file, outcome, result, reqCount, setBefore, setInWindow>>
    /\ UNCHANGED <<meta, lateCancel>>
    /\ UNCHANGED auxVars

\* Tier 3 of the audio orchestrators: the download starts as soon as tier 2
\* is exhausted, and no flag is read before it.
StartExtraction ==
    /\ pc = "start3"
    /\ pc' = "inflight"
    /\ calls' = Append(calls, CallEntry("tier3", ExtractionFormat))
    /\ UNCHANGED <<kind, quality, fp, phase, idx, cancelled, last_error,
                   video_file, outcome, result, reqCount, setBefore, setInWindow>>
    /\ UNCHANGED <<meta, lateCancel>>
    /\ UNCHANGED auxVars

IsFailure(o) == o.kind \in {"raise", "no_info", "missing_file"}

\* last_error after an attempt that ended as o: only an exception is recorded.
RecordError(le, o) == IF o.kind = "raise" THEN o.msg ELSE le

\* download_video without the return after a download that left a file.
CompleteDownloadVideo_NoReturn(o) ==
    /\ pc = "inflight" /\ kind = DV /\ phase = "main"
    /\ outcome' = o
    /\ calls' = MarkLast(IF IsFailure(o) THEN "fail" ELSE "ok")
    /\ last_error' = RecordError(last_error, o)
    /\ IF HasNext(idx, DownloaderStrategies(quality))
       THEN /\ idx' = idx + 1
            /\ pc' = "check"
            /\ result' = result
       ELSE /\ idx' = idx
            /\ pc' = "done"
            /\ result' = DownloaderVideoDict(FALSE, AllStrategiesFailedError(last_error'),
                                             None, None, None, FALSE, 0)
    /\ UNCHANGED <<kind, quality, fp, phase, cancelled, video_file, reqCount,
                   setBefore, setInWindow>>
    /\ UNCHANGED <<meta, lateCancel>>
    /\ UNCHANGED auxVars

\* download_video: the end of a main-strategy download call.
CompleteDownloadVideo(o) ==
    /\ pc = "inflight" /\ kind = DV /\ phase = "main"
    /\ outcome' = o
    /\ IF IsFailure(o)
       THEN LET le == RecordError(last_error, o) IN
            /\ last_error' = le
            /\ calls' = MarkLast("fail")
            /\ video_file' = video_file
            /\ phase' = phase
            /\ IF HasNext(idx, DownloaderStrategies(quality))
               THEN /\ idx' = idx + 1
                    /\ pc' = "check"
                    /\ result' = result
               ELSE /\ idx' = idx
                    /\ pc' = "done"
                    /\ result' = DownloaderVideoDict(FALSE, AllStrategiesFailedError(le),
                                                     None, None, None, FALSE, 0)
       ELSE LET f == o.file IN
            /\ calls' = MarkLast("ok")
            /\ IF DownloaderHasVideo(f) /\ ~DownloaderHasAudio(f)
               THEN \* video only: _download_separate_audio starts
                    /\ phase' = "sep_audio"
                    /\ idx' = 1
                    /\ last_error' = None
                    /\ video_file' = f
                    /\ pc' = "check"
                    /\ result' = result
               ELSE /\ result' = DownloaderVideoDict(TRUE, None, PathOf(f), None, None,
                                                     FALSE, f.size)
                    /\ pc' = "done"
                    /\ UNCHANGED <<phase, idx, last_error, video_file>>
    /\ UNCHANGED <<kind, quality, fp, cancelled, reqCount, setBefore, setInWindow>>
    /\ UNCHANGED <<meta, lateCancel>>
    /\ UNCHANGED auxVars

\* _download_separate_audio: the end of an audio download call.
CompleteSeparateAudio(o) ==
    /\ pc = "inflight" /\ kind = DV /\ phase = "sep_audio"
    /\ outcome' = o
    /\ IF IsFailure(o)
       THEN LET le == RecordError(last_error, o) IN
            /\ last_error' = le
            /\ calls' = MarkLast("fail")
            /\ IF HasNext(idx, SeparateAudioStrategies)
               THEN /\ idx' = idx + 1
                    /\ pc' = "check"
                    /\ result' = result
               ELSE /\ idx' = idx
                    /\ pc' = "done"
                    /\ result' = DownloaderVideoDict(FALSE, SeparateAudioFailedError(le),
                                                     None, None, None, FALSE, 0)
       ELSE /\ calls' = MarkLast("ok")
            /\ result' = DownloaderVideoDict(TRUE, None, None, PathOf(video_file),
                                             PathOf(o.file), TRUE,
                                             video_file.size + o.file.size)
            /\ pc' = "done"
            /\ UNCHANGED <<idx, last_error>>
    /\ UNCHANGED <<kind, quality, fp, phase, cancelled, video_file, reqCount,
                   setBefore, setInWindow>>
    /\ UNCHANGED <<meta, lateCancel>>
    /\ UNCHANGED auxVars

\* The audio orchestrators: the end of a tier-1 or tier-2 download call.  An
\* exception is logged and the loop goes on; after the last tier-1 expression
\* comes tier 2, after the last tier-2 expression the tier-3 download.
CompleteAudioTier(o) ==
    /\ pc = "inflight" /\ kind \in AudioKinds /\ phase \in {"tier1", "tier2"}
    /\ outcome' = o
    /\ IF IsFailure(o)
       THEN /\ calls' = MarkLast("fail")
            /\ result' = result
            /\ IF HasNext(idx, StrategyList(kind, phase, quality))
               THEN /\ idx' = idx + 1
                    /\ phase' = phase
                    /\ pc' = "check"
               ELSE /\ idx' = 1
                    /\ phase' = NextTier(phase)
                    /\ pc' = IF NextTier(phase) = "tier3" THEN "start3" ELSE "check"
       ELSE /\ calls' = MarkLast("ok")
            /\ result' = AudioSuccessResult(o.file)
            /\ pc' = "done"
            /\ UNCHANGED <<phase, idx>>
    /\ UNCHANGED <<kind, quality, fp, cancelled, last_error, video_file, reqCount,
                   setBefore, setInWindow>>
    /\ UNCHANGED <<meta, lateCancel>>
    /\ UNCHANGED auxVars

\* The audio orchestrators: the end of the tier-3 download call.
CompleteExtraction(o) ==
    /\ pc = "inflight" /\ kind \in AudioKinds /\ phase = "tier3"
    /\ outcome' = o
    /\ IF IsFailure(o)
       THEN /\ calls' = MarkLast("fail")
            /\ result' = create_result_dict(FALSE, NoAudioFormatsError, None, None,
                                            None, FALSE, FALSE, 0)
       ELSE /\ calls' = MarkLast("ok")
            /\ result' = ExtractionResult(o.file)
    /\ pc' = "done"
    /\ UNCHANGED <<kind, quality, fp, phase, idx, cancelled, last_error,
                   video_file, reqCount, setBefore, setInWindow>>
    /\ UNCHANGED <<meta, lateCancel>>
    /\ UNCHANGED auxVars

\* download_video_with_strategies: the end of a download call.
CompleteStrategies(o) ==
    /\ pc = "inflight" /\ kind = VS
    /\ outcome' = o
    /\ IF IsFailure(o)
       THEN LET le == RecordError(last_error, o) IN
            /\ last_error' = le
            /\ calls' = MarkLast("fail")
            /\ IF o.kind = "raise" /\ ~ENABLE_FALLBACKS
               THEN /\ idx' = idx
                    /\ pc' = "done"
                    /\ result' = create_result_dict(FALSE, PrimaryStrategyFailedError(le),
                                                    None, None, None, FALSE, FALSE, 0)
               ELSE IF HasNext(idx, StrategyList(kind, phase, quality))
                    THEN /\ idx' = idx + 1
                         /\ pc' = "check"
                         /\ result' = result
                    ELSE /\ idx' = idx
                         /\ pc' = "done"
                         /\ result' = create_result_dict(FALSE, AllStrategiesFailedError(le),
                                                         None, None, None, FALSE, FALSE, 0)
       ELSE /\ calls' = MarkLast("ok")
            /\ result' = analyze_downloaded_file(o.file)
            /\ pc' = "done"
            /\ UNCHANGED <<idx, last_error>>
    /\ UNCHANGED <<kind, quality, fp, phase, cancelled, video_file, reqCount,
                   setBefore, setInWindow>>
    /\ UNCHANGED <<meta, lateCancel>>
    /\ UNCHANGED auxVars

\* ------------------------------------------------------------------------
\* The cancelling thread
\* ------------------------------------------------------------------------

\* cancel() of the VideoDownloader, or `obj.cancelled = True` on a handler.
Cancel(o) ==
    /\ ~cancelled[o]
    /\ cancelled' = [cancelled EXCEPT ![o] = TRUE]
    /\ setBefore' = (setBefore \/ (BeforeFirstAttempt /\ o = OrchestratorFlag(kind)))
    /\ setInWindow' =
         (setInWindow \/ (/\ BeforeFirstAttempt
                          /\ o = PolledFlag(kind)
                          /\ (pc # "entry" \/ kind \notin ResettingKinds)))
    /\ lateCancel' =
         (lateCancel \/ (RequestRunning /\ o = OrchestratorFlag(kind)))
    /\ UNCHANGED <<pc, kind, quality, fp, phase, idx, last_error, video_file,
                   calls, outcome, result, reqCount, meta>>
    /\ UNCHANGED auxVars

\* reset_cancellation() of the VideoDownloader: unconditional, between
\* requests or while one is running.
ResetCancellation ==
    /\ cancelled' = [cancelled EXCEPT !["VideoDownloader"] = FALSE]
    /\ setInWindow' =
         (setInWindow /\ ~(BeforeFirstAttempt /\ PolledFlag(kind) = "VideoDownloader"))
    /\ UNCHANGED <<pc, kind, quality, fp, phase, idx, last_error, video_file,
                   calls, outcome, result, reqCount, setBefore>>
    /\ UNCHANGED <<meta, lateCancel>>
    /\ UNCHANGED auxVars

Next ==
    \/ \E k \in Kinds : \E q \in TokensOf(k) :
         \E p \in (IF k = VS THEN FormatProcessors ELSE {"FormatProcessor"}) :
           Call(k, q, p)
    \/ BeginDownloadVideo
    \/ BeginDownloadAudio
    \/ BeginAudioHandler
    \/ BeginStrategies
    \/ DownloadDashVideo
    \/ \E m \in MetaOutcomes : MetaQuery(m)
    \/ CancelledAtBoundary
    \/ StartAttempt
    \/ StartExtraction
    \/ \E o \in Outcomes : CompleteDownloadVideo(o)
    \/ \E o \in Outcomes : CompleteSeparateAudio(o)
    \/ \E o \in Outcomes : CompleteAudioTier(o)
    \/ \E o \in Outcomes : CompleteExtraction(o)
    \/ \E o \in Outcomes : CompleteStrategies(o)
    \/ \E o \in FlagOwners : Cancel(o)
    \/ ResetCancellation

Spec == Init /\ [][Next]_vars

\* ------------------------------------------------------------------------
\* The format catalog normalizer
\* ------------------------------------------------------------------------

\* Longest raw catalog the extractor hands over.
MaxCatalog == 3

\* A key the descriptor does not have (fmt.get(key, default) gives default).
Missing == "<missing>"

\* fmt.get(key, default).
GetOr(v, default) == IF v = Missing THEN default ELSE v

\* str(n) for the numbers the catalogs use.
Str(n) ==
    CASE n = 0 -> "0"
      [] n = 360 -> "360"
      [] n = 480 -> "480"
      [] n = 640 -> "640"
      [] n = 720 -> "720"
      [] n = 1080 -> "1080"
      [] n = 1280 -> "1280"
      [] n = 1920 -> "1920"
      [] OTHER -> "9999"

\* The texts of the catalogs that contain 'dash' once lower-cased.
DashTexts == {"dash-audio", "DASH audio"}

\* 'dash' in text.lower().
ContainsDash(text) == text \in DashTexts

\* One raw descriptor of info['formats'].  A number is the value of
\* `fmt.get(key, 0) or 0`: a missing key and None read 0.
StreamDescriptor(format_id, ext, vcodec, acodec, height, width, tbr, filesize, filesize_approx, format_note, protocol, resolution) ==
    [format_id |-> format_id, ext |-> ext, vcodec |-> vcodec, acodec |-> acodec,
     height |-> height, width |-> width, tbr |-> tbr, filesize |-> filesize,
     filesize_approx |-> filesize_approx, format_note |-> format_note,
     protocol |-> protocol, resolution |-> resolution]

\* The audio-only descriptor of a DASH manifest whose id says so.
AudioDashById ==
    StreamDescriptor("dash-audio", "m4a", "none", "aac", 0, 0, 128, 1000, 0,
                     Missing, "http_dash_segments", "audio only")
\* The same stream under a numeric id: only its protocol says DASH.
AudioDashByProtocol ==
    StreamDescriptor("140", "m4a", "none", "aac", 0, 0, 128, 1000, 0,
                     Missing, "http_dash_segments", "audio only")
\* An audio-only stream whose format note says DASH; its size is approximate.
AudioDashByNote ==
    StreamDescriptor("251", "webm", None, "opus", 0, 0, 160, 0, 1500,
                     "DASH audio", "https", Missing)
VideoOnly1080 ==
    StreamDescriptor("137", "mp4", "avc1", "none", 1080, 1920, 4000, 9000, 0,
                     Missing, "http_dash_segments", "1920x1080")
VideoOnly1080HighRate ==
    StreamDescriptor("299", "mp4", "avc1", None, 1080, 1920, 6000, 0, 12000,
                     Missing, "http_dash_segments", "1920x1080")
\* A second 1080 video-only stream of the same bitrate as VideoOnly1080.
VideoOnly1080Av1 ==
    StreamDescriptor("399", "mp4", "av01", "none", 1080, 1920, 4000, 7000, 0,
                     Missing, "http_dash_segments", "1920x1080")
VideoOnly720 ==
    StreamDescriptor("136", "mp4", "avc1", "null", 720, 1280, 2000, 5000, 0,
                     Missing, "http_dash_segments", "1280x720")
VideoOnly360 ==
    StreamDescriptor("134", "mp4", "avc1", "none", 360, 640, 500, 2500, 0,
                     Missing, "http_dash_segments", "640x360")
Complete360 ==
    StreamDescriptor("18", "mp4", "avc1", "mp4a", 360, 640, 700, 3000, 0,
                     "360p", "https", "640x360")
\* A complete stream of known height whose width is not reported; the
\* extractor describes its resolution as a text.
Complete480NoWidth ==
    StreamDescriptor("hls-480", "mp4", "avc1", "mp4a", 480, 0, 1200, 0, 0,
                     Missing, "m3u8_native", "480p")
\* A direct file link: the generic extractor reports no codecs and no size.
DirectMp4 ==
    StreamDescriptor("direct", "mp4", None, None, 0, 0, 0, 0, 0,
                     Missing, "https", Missing)
Subtitles ==
    StreamDescriptor("sub", "srt", "none", "none", 0, 0, 0, 0, 0,
                     Missing, "https", Missing)
\* No codec reported, audio extension.
BareMp3 ==
    StreamDescriptor("aud", "mp3", "none", "null", 0, 0, 0, 0, 0,
                     Missing, "https", Missing)
\* A video codec in an audio container, audio codec absent, width unknown.
VideoInM4a ==
    StreamDescriptor("vm4a", "m4a", "avc1", "none", 480, 0, 900, 2000, 0,
                     Missing, "https", Missing)
\* The video codec is the empty string.
EmptyVcodecAudio ==
    StreamDescriptor("e1", "m4a", "", "aac", 0, 0, 96, 800, 0,
                     Missing, "https", "audio only")
PlainMp3 ==
    StreamDescriptor("mp3-128", "mp3", "none", "mp3", 0, 0, 128, 900, 0,
                     Missing, "https", "audio only")

Descriptors ==
    {AudioDashById, AudioDashByProtocol, AudioDashByNote, VideoOnly1080,
     VideoOnly1080HighRate, VideoOnly1080Av1, VideoOnly720, VideoOnly360,
     Complete360, Complete480NoWidth, DirectMp4, Subtitles,
     BareMp3, VideoInM4a, EmptyVcodecAudio, PlainMp3}

\* The raw catalogs.
Catalogs == UNION {[1..n -> Descriptors] : n \in 0..MaxCatalog}

\* `codec not in ('none', None, 'null') and codec != ''`.
CodecPresent(codec) == codec \notin {"none", None, "null"} /\ codec # ""

\* `codec in ('none', None, 'null')`.
CodecInNoneSet(codec) == codec \in {"none", None, "null"}

video_extensions == {"mp4", "webm", "mkv", "avi", "mov", "flv", "m4v", "mpg", "mpeg", "wmv"}
audio_extensions == {"mp3", "aac", "m4a", "wav", "ogg", "opus", "flac"}

\* The height an entry gets when it has video and no resolution at all.
OriginalQualityHeight == 9999

\* What _process_format returns for a descriptor it skips.
NoEntry == [skipped |-> TRUE]

ResolvedFlags_NoHeuristic(fmt) ==
    [has_video |-> CodecPresent(GetOr(fmt.vcodec, "none")),
     has_audio |-> CodecPresent(GetOr(fmt.acodec, "none"))]

\* has_video / has_audio of _process_format, after the extension heuristics.
ResolvedFlags(fmt) ==
    LET hv == CodecPresent(GetOr(fmt.vcodec, "none"))
        ha == CodecPresent(GetOr(fmt.acodec, "none"))
    IN  IF fmt.ext \in video_extensions /\ ~hv /\ ~ha
        THEN [has_video |-> TRUE, has_audio |-> TRUE]
        ELSE IF fmt.ext \in audio_extensions /\ ~ha
             THEN [has_video |-> hv, has_audio |-> TRUE]
             ELSE [has_video |-> hv, has_audio |-> ha]

\* `str(codec) if codec else 'none'`.
CodecText(codec) == IF codec \in {None, ""} THEN "none" ELSE codec

\* `fmt.get('filesize') or fmt.get('filesize_approx', 0) or 0`.
EffectiveFilesize(fmt) ==
    IF fmt.filesize # 0 THEN fmt.filesize ELSE fmt.filesize_approx

process_format_KeepAll(fmt) ==
    [format_id |-> fmt.format_id, ext |-> fmt.ext, resolution |-> "Audio",
     height |-> 0, quality_label |-> "Audio Only",
     filesize |-> EffectiveFilesize(fmt),
     vcodec |-> CodecText(GetOr(fmt.vcodec, "none")),
     acodec |-> CodecText(GetOr(fmt.acodec, "none")),
     has_audio |-> ResolvedFlags(fmt).has_audio,
     has_video |-> ResolvedFlags(fmt).has_video,
     format_note |-> GetOr(fmt.format_note, ""), tbr |-> fmt.tbr]

process_format_IgnoreResolutionText(fmt) ==
    LET flags == ResolvedFlags(fmt)
        height == fmt.height
        width == fmt.width
        raw == GetOr(fmt.resolution, "unknown")
        sized == height # 0 /\ width # 0
        unknown == TRUE
        resolution == IF sized THEN Str(width) \o "x" \o Str(height) ELSE raw
        label == IF sized THEN Str(height) \o "p"
                 ELSE IF unknown
                      THEN IF flags.has_video THEN "Original Quality" ELSE "Audio Only"
                      ELSE raw
        h == IF sized \/ ~unknown THEN height
             ELSE IF flags.has_video THEN OriginalQualityHeight ELSE 0
        audioOnly == ~flags.has_video /\ flags.has_audio
    IN  IF ~flags.has_video /\ ~flags.has_audio
        THEN NoEntry
        ELSE [format_id |-> fmt.format_id, ext |-> fmt.ext,
              resolution |-> IF audioOnly THEN "Audio" ELSE resolution,
              height |-> IF audioOnly THEN 0 ELSE h,
              quality_label |-> IF audioOnly THEN "Audio Only" ELSE label,
              filesize |-> EffectiveFilesize(fmt),
              vcodec |-> CodecText(GetOr(fmt.vcodec, "none")),
              acodec |-> CodecText(GetOr(fmt.acodec, "none")),
              has_audio |-> flags.has_audio, has_video |-> flags.has_video,
              format_note |-> GetOr(fmt.format_note, ""), tbr |-> fmt.tbr]

\* _process_format (the two classes have the same code); the fps and url it
\* copies through are left out.
process_format(fmt) ==
    LET flags == ResolvedFlags(fmt)
        height == fmt.height
        width == fmt.width
        raw == GetOr(fmt.resolution, "unknown")
        sized == height # 0 /\ width # 0
        unknown == raw \in {"unknown", None, "null"}
        resolution == IF sized THEN Str(width) \o "x" \o Str(height) ELSE raw
        label == IF sized THEN Str(height) \o "p"
                 ELSE IF unknown
                      THEN IF flags.has_video THEN "Original Quality" ELSE "Audio Only"
                      ELSE raw
        h == IF sized \/ ~unknown THEN height
             ELSE IF flags.has_video THEN OriginalQualityHeight ELSE 0
        audioOnly == ~flags.has_video /\ flags.has_audio
    IN  IF ~flags.has_video /\ ~flags.has_audio
        THEN NoEntry
        ELSE [format_id |-> fmt.format_id, ext |-> fmt.ext,
              resolution |-> IF audioOnly THEN "Audio" ELSE resolution,
              height |-> IF audioOnly THEN 0 ELSE h,
              quality_label |-> IF audioOnly THEN "Audio Only" ELSE label,
              filesize |-> EffectiveFilesize(fmt),
              vcodec |-> CodecText(GetOr(fmt.vcodec, "none")),
              acodec |-> CodecText(GetOr(fmt.acodec, "none")),
              has_audio |-> flags.has_audio, has_video |-> flags.has_video,
              format_note |-> GetOr(fmt.format_note, ""), tbr |-> fmt.tbr]

\* `for fmt in fmts: info = _process_format(fmt); if info: append(info)`.
RECURSIVE ProcessAll(_)
ProcessAll(fmts) ==
    IF fmts = <<>> THEN <<>>
    ELSE LET info == process_format(Head(fmts)) IN
         (IF info = NoEntry THEN <<>> ELSE <<info>>) \o ProcessAll(Tail(fmts))

\* The sort key (has_video, height): a is strictly greater than b.
KeyGreater(a, b) ==
    \/ a.has_video /\ ~b.has_video
    \/ a.has_video = b.has_video /\ a.height > b.height

\* sorted with e put behind every entry whose key is not smaller than e's.
InsertByKey(sorted, e) ==
    LET before == {i \in 1..Len(sorted) : ~KeyGreater(e, sorted[i])}
        n == Cardinality(before)
    IN  SubSeq(sorted, 1, n) \o <<e>> \o SubSeq(sorted, n + 1, Len(sorted))

SortFormats_Unsorted(format_list) == format_list

\* format_list.sort(key=lambda x: (x['has_video'], x['height']), reverse=True):
\* a stable sort, entries with equal keys keep their order.
RECURSIVE SortFormats(_)
SortFormats(format_list) ==
    IF format_list = <<>> THEN <<>>
    ELSE InsertByKey(SortFormats(SubSeq(format_list, 1, Len(format_list) - 1)),
                     format_list[Len(format_list)])

\* FormatProcessor.extract_format_info.
FormatProcessor_extract_format_info(fmts) == SortFormats(ProcessAll(fmts))

\* First pass of VideoDownloader._extract_format_info: the three classes.
IsDashAudio(fmt) ==
    /\ CodecPresent(GetOr(fmt.acodec, "none"))
    /\ CodecInNoneSet(GetOr(fmt.vcodec, "none"))
    /\ (ContainsDash(GetOr(fmt.format_note, "")) \/ ContainsDash(GetOr(fmt.format_id, "")))

IsVideoOnly(fmt) ==
    /\ ~IsDashAudio(fmt)
    /\ CodecPresent(GetOr(fmt.vcodec, "none"))
    /\ CodecInNoneSet(GetOr(fmt.acodec, "none"))

IsComplete(fmt) ==
    /\ CodecPresent(GetOr(fmt.vcodec, "none"))
    /\ CodecPresent(GetOr(fmt.acodec, "none"))

\* dash_audio_format: the last DASH audio descriptor of the catalog, if any.
HasDashAudio(fmts) == \E i \in 1..Len(fmts) : IsDashAudio(fmts[i])
DashAudioFormat(fmts) ==
    fmts[CHOOSE i \in 1..Len(fmts) :
            IsDashAudio(fmts[i]) /\ \A j \in (i + 1)..Len(fmts) : ~IsDashAudio(fmts[j])]

\* sorted(resolution_groups.keys(), reverse=True).
RECURSIVE SortedDescending(_)
SortedDescending(S) ==
    IF S = {} THEN <<>>
    ELSE LET m == CHOOSE x \in S : \A y \in S : y <= x IN
         <<m>> \o SortedDescending(S \ {m})

BestVideo_LatestOnTies(video_only, height) ==
    LET g == SelectSeq(video_only, LAMBDA f : f.height = height)
        i == CHOOSE i \in 1..Len(g) :
                /\ \A j \in 1..Len(g) : g[j].tbr <= g[i].tbr
                /\ \A j \in (i + 1)..Len(g) : g[j].tbr < g[i].tbr
    IN  g[i]

\* video_formats.sort(key=tbr, reverse=True)[0] within one height: the
\* earliest descriptor of the highest bitrate.
BestVideo(video_only, height) ==
    LET g == SelectSeq(video_only, LAMBDA f : f.height = height)
        i == CHOOSE i \in 1..Len(g) :
                /\ \A j \in 1..Len(g) : g[j].tbr <= g[i].tbr
                /\ \A j \in 1..(i - 1) : g[j].tbr < g[i].tbr
    IN  g[i]

\* paired_format; the width, fps and url it copies through are left out.
PairedFormat(best_video, dash_audio, height) ==
    [format_id |-> best_video.format_id \o "+" \o dash_audio.format_id,
     video_format_id |-> best_video.format_id,
     audio_format_id |-> dash_audio.format_id,
     ext |-> GetOr(best_video.ext, "mp4"),
     resolution |-> GetOr(best_video.resolution, ""),
     height |-> height,
     quality_label |-> Str(height) \o "p",
     filesize |-> EffectiveFilesize(best_video) + EffectiveFilesize(dash_audio),
     vcodec |-> GetOr(best_video.vcodec, "none"),
     acodec |-> GetOr(dash_audio.acodec, "none"),
     has_audio |-> TRUE, has_video |-> TRUE,
     format_note |-> "DASH " \o Str(height) \o "p (Video+Audio)",
     tbr |-> best_video.tbr + dash_audio.tbr,
     is_dash_paired |-> TRUE]

\* The paired formats, one per height, highest first.
PairedFormats(fmts) ==
    LET video_only == SelectSeq(fmts, IsVideoOnly) IN
    IF HasDashAudio(fmts) /\ video_only # <<>>
    THEN LET heights == SortedDescending({video_only[i].height : i \in 1..Len(video_only)})
         IN  [k \in 1..Len(heights) |->
                 PairedFormat(BestVideo(video_only, heights[k]), DashAudioFormat(fmts), heights[k])]
    ELSE <<>>

\* `fmt not in complete_formats and fmt not in video_only_formats and
\* fmt != dash_audio_format`.
IsRemaining(fmts, fmt) ==
    /\ ~IsComplete(fmt)
    /\ ~IsVideoOnly(fmt)
    /\ ~(HasDashAudio(fmts) /\ fmt = DashAudioFormat(fmts))

\* VideoDownloader._extract_format_info, the normalizer get_video_info uses.
VideoDownloader_extract_format_info(fmts) ==
    SortFormats(ProcessAll(SelectSeq(fmts, IsComplete))
                \o PairedFormats(fmts)
                \o ProcessAll(SelectSeq(fmts, LAMBDA f : IsRemaining(fmts, f))))

\* get_video_info normalizes the catalog the extractor returned.
ExtractFormatInfo ==
    /\ normalizer = "none"
    /\ normalizer' = "VideoDownloader"
    /\ formats' = VideoDownloader_extract_format_info(catalog)
    /\ UNCHANGED <<catalog, vars, validatorVars, progressVars, handlerVars>>

\* FormatProcessor.extract_format_info normalizes the same catalog.
FormatProcessorExtract ==
    /\ normalizer = "none"
    /\ normalizer' = "FormatProcessor"
    /\ formats' = FormatProcessor_extract_format_info(catalog)
    /\ UNCHANGED <<catalog, vars, validatorVars, progressVars, handlerVars>>

InitFormats ==
    /\ DownloadIdle
    /\ ValidatorIdle
    /\ ProgressIdle
    /\ HandlerIdle
    /\ catalog \in Catalogs
    /\ normalizer = "none"
    /\ formats = <<>>

NextFormats ==
    \/ ExtractFormatInfo
    \/ FormatProcessorExtract

SpecFormats == InitFormats /\ [][NextFormats]_<<vars, auxVars>>

\* ------------------------------------------------------------------------
\* Audio file validator on a directory
\* ------------------------------------------------------------------------

\* How many times in a row validate_audio_file is applied to its own result.
MaxValidations == 2

\* The paths of the output directory.
Paths == {"/out/a.m4a", "/out/a.M4A", "/out/a.mp4", "/out/a.aac"}

\* os.path.splitext(filepath)[0].
SplitBase(p) == "/out/a"

\* os.path.splitext(filepath)[1].
SplitExt(p) ==
    CASE p = "/out/a.m4a" -> ".m4a"
      [] p = "/out/a.M4A" -> ".M4A"
      [] p = "/out/a.mp4" -> ".mp4"
      [] OTHER -> ".aac"

\* What is at a path. head is what the content starts with: "ftyp" one of
\* the three MP4 box headers, "adts" the bytes FF F1 or FF F9.
AbsentEntry == [kind |-> "absent", size |-> 0, head |-> "other", readable |-> FALSE]
DirectoryEntry == [kind |-> "dir", size |-> 4096, head |-> "other", readable |-> TRUE]
SmallAdtsFile == [kind |-> "file", size |-> 1023, head |-> "adts", readable |-> TRUE]
UnreadableFile == [kind |-> "file", size |-> 2048, head |-> "adts", readable |-> FALSE]
FtypFile == [kind |-> "file", size |-> 2048, head |-> "ftyp", readable |-> TRUE]
AdtsFile == [kind |-> "file", size |-> 1024, head |-> "adts", readable |-> TRUE]
OtherFile == [kind |-> "file", size |-> 2048, head |-> "other", readable |-> TRUE]

DirEntries ==
    {AbsentEntry, DirectoryEntry, SmallAdtsFile, UnreadableFile, FtypFile,
     AdtsFile, OtherFile}

\* The directories the validator can find: every path holds any entry, and
\* the directory itself may refuse changes.
Directories == [files : [Paths -> DirEntries], writable : BOOLEAN]

\* An exception leaving a function, and a function's normal return.
Raised == [raised |-> TRUE]
Returns(p, fsys) == [raised |-> FALSE, path |-> p, fs |-> fsys]

\* try: ... except Exception: return filepath.
Catch(body, filepath, fsys) ==
    IF body.raised THEN Returns(filepath, fsys) ELSE body

\* os.path.getsize raises when nothing is at the path.
GetsizeRaises(fsys, p) == fsys.files[p].kind = "absent"

\* open(filepath, 'rb') raises on a directory or an unreadable file.
OpenRaises(fsys, p) ==
    fsys.files[p].kind # "file" \/ ~fsys.files[p].readable

\* os.rename raises when the directory refuses the change or the target is a
\* directory; renaming a file to its own path changes nothing.
RenameRaises(fsys, src, dst) ==
    src # dst /\ (~fsys.writable \/ fsys.files[dst].kind = "dir")
Rename(fsys, src, dst) ==
    IF src = dst THEN fsys
    ELSE [fsys EXCEPT !.files = [@ EXCEPT ![dst] = fsys.files[src],
                                           ![src] = AbsentEntry]]

RepairedPath_Toggle(p) ==
    IF SplitExt(p) = ".m4a" THEN SplitBase(p) \o ".mp4" ELSE SplitBase(p) \o ".m4a"

\* repaired_filepath of _wrap_aac_in_m4a.
RepairedPath(p) == SplitBase(p) \o ".m4a"

wrap_aac_in_m4a_IgnoreFailure(fsys, p) ==
    IF RenameRaises(fsys, p, RepairedPath(p))
    THEN Returns(RepairedPath(p), fsys)
    ELSE Returns(RepairedPath(p), Rename(fsys, p, RepairedPath(p)))

\* AudioValidator._wrap_aac_in_m4a.
wrap_aac_in_m4a(fsys, p) ==
    Catch(IF RenameRaises(fsys, p, RepairedPath(p))
          THEN Raised
          ELSE Returns(RepairedPath(p), Rename(fsys, p, RepairedPath(p))),
          p, fsys)

\* AudioValidator._repair_audio_container.
AudioValidator_repair_audio_container(fsys, p) ==
    Catch(IF OpenRaises(fsys, p) THEN Raised
          ELSE IF fsys.files[p].head = "adts" THEN wrap_aac_in_m4a(fsys, p)
          ELSE Returns(p, fsys),
          p, fsys)

\* AudioValidator._validate_m4a_container.
validate_m4a_container(fsys, p) ==
    Catch(IF OpenRaises(fsys, p) THEN Raised
          ELSE IF fsys.files[p].head = "ftyp" THEN Returns(p, fsys)
          ELSE AudioValidator_repair_audio_container(fsys, p),
          p, fsys)

\* AudioValidator.validate_audio_file on the directory; the downloader's
\* _validate_audio_file and _repair_audio_container are the same statements.
AudioValidator_validate_audio_file(fsys, p) ==
    Catch(IF GetsizeRaises(fsys, p) THEN Raised
          ELSE IF fsys.files[p].size < 1024 THEN Returns(p, fsys)
          ELSE IF Lower(SplitExt(p)) \in {".m4a", ".mp4"}
               THEN validate_m4a_container(fsys, p)
               ELSE Returns(p, fsys),
          p, fsys)

\* The path the next call is given: the caller's path first, then the path
\* the previous call returned.
NextInput == IF vreturns = <<>> THEN vinput ELSE vreturns[Len(vreturns)]

\* validated_filepath = AudioValidator.validate_audio_file(filepath).
ValidateAudioFile ==
    /\ vinput # None
    /\ Len(vreturns) < MaxValidations
    /\ LET out == AudioValidator_validate_audio_file(fs, NextInput) IN
       /\ vreturns' = Append(vreturns, IF out.raised THEN "<raised>" ELSE out.path)
       /\ fs' = IF out.raised THEN fs ELSE out.fs
       /\ vsnaps' = Append(vsnaps, fs')
    /\ UNCHANGED <<vinput, vars, normVars, progressVars, handlerVars>>

\* A download left some directory behind and reports one of its paths;
\* vsnaps starts with the directory as the first call finds it.
InitValidator ==
    /\ DownloadIdle /\ NormalizerIdle /\ ProgressIdle /\ HandlerIdle
    /\ fs \in Directories
    /\ vinput \in Paths
    /\ vreturns = <<>>
    /\ vsnaps = <<fs>>

NextValidator == ValidateAudioFile

SpecValidator == InitValidator /\ [][NextValidator]_<<vars, auxVars>>

\* ------------------------------------------------------------------------
\* Progress tracker
\* ------------------------------------------------------------------------

\* The last reading of the clock and the number of progress events explored.
MaxClock == 11
MaxEvents == 3

\* ProgressTracker.update_interval, 0.5 seconds, in tenths of a second.
UpdateInterval == 5

\* d.get('status') of the events yt-dlp delivers to a progress hook.
Statuses == {"downloading", "finished", "error"}

ShouldSuppress_Never(status, current_time, last) == FALSE

ShouldSuppress_AllStatuses(status, current_time, last) ==
    current_time - last < UpdateInterval

\* The early return of ProgressTracker.__call__: inside the interval, every
\* status but 'finished' and 'error' is dropped.
ShouldSuppress(status, current_time, last) ==
    /\ current_time - last < UpdateInterval
    /\ status # "finished" /\ status # "error"

\* time.time() moves on between two events.
Tick ==
    /\ now < MaxClock
    /\ now' = now + 1
    /\ UNCHANGED <<callback, last_update_time, events, forwarded, hooks>>
    /\ UNCHANGED <<vars, normVars, validatorVars, handlerVars>>

\* ProgressTracker.__call__(d), one event at a time.
ProgressHook ==
    /\ Len(events) < MaxEvents
    /\ \E status \in Statuses :
        /\ events' = Append(events, [status |-> status, time |-> now])
        /\ IF ShouldSuppress(status, now, last_update_time)
           THEN UNCHANGED <<last_update_time, forwarded>>
           ELSE /\ last_update_time' = now
                /\ forwarded' =
                     IF callback
                     THEN Append(forwarded, [status |-> status, time |-> now,
                                             event |-> Len(events) + 1])
                     ELSE forwarded
    /\ UNCHANGED <<callback, now, hooks>>
    /\ UNCHANGED <<vars, normVars, validatorVars, handlerVars>>

\* ProgressTracker.__init__, at some time at least one interval after the
\* epoch.
InitProgress ==
    /\ DownloadIdle /\ NormalizerIdle /\ ValidatorIdle /\ HandlerIdle
    /\ callback \in BOOLEAN
    /\ now = UpdateInterval
    /\ last_update_time = 0
    /\ events = <<>>
    /\ forwarded = <<>>
    /\ hooks = <<>>

NextProgress ==
    \/ Tick
    \/ ProgressHook

SpecProgress == InitProgress /\ [][NextProgress]_<<vars, auxVars>>

\* ------------------------------------------------------------------------
\* The progress tracker called from several backend threads
\* ------------------------------------------------------------------------

\* The backend threads that deliver progress events to one tracker.
MaxThreads == 2
Threads == 1..MaxThreads

\* A thread that is not inside __call__.
HookIdle == [pc |-> "idle"]

\* `current_time = time.time()`: a thread enters __call__ with an event and
\* reads the clock.
HookReadClock(t) ==
    /\ hooks[t] = HookIdle
    /\ Len(events) < MaxEvents
    /\ \E status \in Statuses :
        /\ events' = Append(events, [status |-> status, time |-> now])
        /\ hooks' = [hooks EXCEPT ![t] = [pc |-> "check", status |-> status,
                                           current_time |-> now,
                                           event |-> Len(events) + 1]]
    /\ UNCHANGED <<callback, now, last_update_time, forwarded>>
    /\ UNCHANGED <<vars, normVars, validatorVars, handlerVars>>

\* The thread reads self.last_update_time and compares: it returns early or
\* goes on to the assignment.
HookCheck(t) ==
    /\ hooks[t].pc = "check"
    /\ hooks' = [hooks EXCEPT ![t] =
                    IF ShouldSuppress(hooks[t].status, hooks[t].current_time, last_update_time)
                    THEN HookIdle
                    ELSE [hooks[t] EXCEPT !.pc = "update"]]
    /\ UNCHANGED <<callback, now, last_update_time, events, forwarded>>
    /\ UNCHANGED <<vars, normVars, validatorVars, handlerVars>>

\* `self.last_update_time = current_time`.
HookUpdate(t) ==
    /\ hooks[t].pc = "update"
    /\ last_update_time' = hooks[t].current_time
    /\ hooks' = [hooks EXCEPT ![t].pc = "forward"]
    /\ UNCHANGED <<callback, now, events, forwarded>>
    /\ UNCHANGED <<vars, normVars, validatorVars, handlerVars>>

\* `if self.callback: self.callback(d)`, and the thread leaves __call__.
HookForward(t) ==
    /\ hooks[t].pc = "forward"
    /\ forwarded' =
         IF callback
         THEN Append(forwarded, [status |-> hooks[t].status,
                                 time |-> hooks[t].current_time,
                                 event |-> hooks[t].event, thread |-> t])
         ELSE forwarded
    /\ hooks' = [hooks EXCEPT ![t] = HookIdle]
    /\ UNCHANGED <<callback, now, last_update_time, events>>
    /\ UNCHANGED <<vars, normVars, validatorVars, handlerVars>>

\* One tracker shared by the threads of one download.
InitConcurrent ==
    /\ DownloadIdle /\ NormalizerIdle /\ ValidatorIdle /\ HandlerIdle
    /\ callback \in BOOLEAN
    /\ now = UpdateInterval
    /\ last_update_time = 0
    /\ events = <<>>
    /\ forwarded = <<>>
    /\ hooks = [t \in Threads |-> HookIdle]

NextConcurrent ==
    \/ Tick
    \/ \E t \in Threads : HookReadClock(t)
    \/ \E t \in Threads : HookCheck(t)
    \/ \E t \in Threads : HookUpdate(t)
    \/ \E t \in Threads : HookForward(t)

SpecConcurrent == InitConcurrent /\ [][NextConcurrent]_<<vars, auxVars>>

\* ------------------------------------------------------------------------
\* The downloaded-file classifier on its own
\* ------------------------------------------------------------------------

\* What a download reports for a codec: a codec name, 'none', JSON null, the
\* text 'null', the empty string, or no key at all.
VideoCodecValues == {"avc1", "none", None, "null", "", Missing}
AudioCodecValues == {"mp4a", "none", None, "null", "", Missing}

\* Extensions of the three kinds the classifier tells apart: a container
\* with audio, a pure audio extension (in either case), and neither.
AnalyzedExtensions == {".mp4", ".m4a", ".M4A", ".m4v", ".bin"}

\* The (file_path, download_info) pairs handed to the classifier; exists is
\* whether the path is still on disk when os.path.getsize reads it.
AnalyzedFiles ==
    [base : {"/out/clip"}, ext : AnalyzedExtensions, vcodec : VideoCodecValues,
     acodec : AudioCodecValues, size : {4096}, head : {"ftyp"},
     exists : BOOLEAN]

\* str(e) of the OSError os.path.getsize raises for a path that is gone.
GetsizeErrorText(path) ==
    "[Errno 2] No such file or directory: '" \o path \o "'"

\* The codecs as download_info.get(key, 'none') reads them.
ReportedCodecs(f) ==
    [base |-> f.base, ext |-> f.ext, vcodec |-> GetOr(f.vcodec, "none"),
     acodec |-> GetOr(f.acodec, "none"), size |-> f.size, head |-> f.head]

VideoHandler_analyze_downloaded_file_Strict(f) ==
    IF f.exists /\ GetOr(f.vcodec, "none") \notin {None, "null", ""}
                /\ GetOr(f.acodec, "none") \notin {None, "null", ""}
    THEN analyze_downloaded_file(ReportedCodecs(f))
    ELSE create_result_dict(FALSE, "Failed to analyze file: " \o GetsizeErrorText(PathOf(f)),
                            PathOf(f), None, None, FALSE, FALSE, 0)

\* VideoHandler._analyze_downloaded_file(file_path, download_info), its
\* except branch included.
VideoHandler_analyze_downloaded_file(f) ==
    IF f.exists
    THEN analyze_downloaded_file(ReportedCodecs(f))
    ELSE create_result_dict(FALSE, "Failed to analyze file: " \o GetsizeErrorText(PathOf(f)),
                            PathOf(f), None, None, FALSE, FALSE, 0)

\* result = self._analyze_downloaded_file(file_path, info).
AnalyzeDownloadedFile ==
    /\ analysis = NoResult
    /\ analysis' = VideoHandler_analyze_downloaded_file(afile)
    /\ UNCHANGED <<afile, vars, normVars, validatorVars, progressVars>>
    /\ UNCHANGED selectorVars

InitClassifier ==
    /\ DownloadIdle /\ NormalizerIdle /\ ValidatorIdle /\ ProgressIdle
    /\ SelectorIdle
    /\ afile \in AnalyzedFiles
    /\ analysis = NoResult

NextClassifier == AnalyzeDownloadedFile

SpecClassifier == InitClassifier /\ [][NextClassifier]_<<vars, auxVars>>

\* ------------------------------------------------------------------------
\* The format selector on its own
\* ------------------------------------------------------------------------

MaxSelections == 2

\* The keys of quality_map.
KnownTokens ==
    {"2160p", "1440p", "1080p", "720p", "480p", "360p", "worst", "best",
     "audio_mp3", "audio_aac"}

\* The quality tokens a caller passes: every key and some that are no key.
SelectorTokens == KnownTokens \cup {"4k", "720P", ""}

\* The two implementations of the selector.
Selectors == {"VideoDownloader", "FormatProcessor"}

\* VideoDownloader._get_quality_based_format(quality) or
\* FormatProcessor.get_quality_based_format(quality).
SelectorExpression(selector, token) ==
    IF selector = "VideoDownloader"
    THEN VideoDownloader_get_quality_based_format(token)
    ELSE FormatProcessor_get_quality_based_format(token)

\* One call of a selector: it builds a local table, looks the token up and
\* assigns nothing else.
GetQualityBasedFormat ==
    /\ Len(selections) < MaxSelections
    /\ \E selector \in Selectors, token \in SelectorTokens :
        selections' = Append(selections,
                             [selector |-> selector, quality |-> token,
                              expr |-> SelectorExpression(selector, token)])
    /\ UNCHANGED <<vars, normVars, validatorVars, progressVars>>
    /\ UNCHANGED classifierVars

InitSelector ==
    /\ DownloadIdle /\ NormalizerIdle /\ ValidatorIdle /\ ProgressIdle
    /\ ClassifierIdle
    /\ selections = <<>>

NextSelector == GetQualityBasedFormat

SpecSelector == InitSelector /\ [][NextSelector]_<<vars, auxVars>>

\* ------------------------------------------------------------------------
\* Properties
\* ------------------------------------------------------------------------

Returned == pc = "done"

\* Every download call of the request ended without a usable file.
EveryCallFailed == \A i \in 1..Len(calls) : calls[i].res = "fail"

\* The request ended by reading its flag set.
EndedCancelled == Returned /\ result.error = CancelledError

\* The top-level requests of the VideoDownloader, the object cancel() belongs
\* to: download_video and download_audio.
TopLevelKinds == {DV, DA}

\* C1 as stated: if the cancellation flag is set before a top-level download
\* request makes its first attempt (before the call, or between the call and
\* the first attempt), the request makes no download call and returns the
\* cancelled outcome.
C1_Original ==
    (Returned /\ kind \in TopLevelKinds /\ setBefore) =>
        (calls = <<>> /\ ~result.success /\ result.error = CancelledError)

\* C1 as amended: if cancel() sets the flag after the request's
\* start-of-request reset and before its first attempt, and nothing clears
\* the flag again before that attempt's poll, the request makes no download
\* call and returns the cancelled outcome (success false, error 'Download
\* cancelled by user'); a cancel() issued before the request is called is
\* erased by the reset, and one erased by reset_cancellation() or by another
\* request starting on the same downloader is not covered either.
C1_CancelBeforeFirstAttempt ==
    (Returned /\ kind \in TopLevelKinds /\ setInWindow) =>
        (calls = <<>> /\ ~result.success /\ result.error = CancelledError)

C1_Witness ==
    /\ Returned /\ kind = DV /\ setInWindow
    /\ calls = <<>> /\ result.error = CancelledError

\* The main strategy list of a video request that reached its loop.
MainStrategies == StrategyList(kind, "main", quality)

\* C2: a video download in which every candidate strategy fails and which
\* does not end by cancellation makes exactly N download calls, one per
\* strategy in list order, and returns a failure outcome.
C2_ExhaustionCount ==
    (/\ Returned /\ kind \in {DV, VS} /\ phase = "main"
     /\ EveryCallFailed /\ result.error # CancelledError) =>
        /\ Len(calls) = Len(MainStrategies)
        /\ \A i \in 1..Len(calls) :
             calls[i].phase = "main" /\ calls[i].expr = MainStrategies[i]
        /\ ~result.success

C2_Witness ==
    /\ Returned /\ kind = DV /\ quality = "720p" /\ phase = "main"
    /\ EveryCallFailed /\ Len(calls) = 3 /\ ~result.success
    /\ ~cancelled["VideoDownloader"]

\* What the failure of the latest attempt is called in an error text.
AttemptError(o) == IF o.kind = "raise" THEN o.msg ELSE "no usable file"

\* C3 as stated: when every video strategy fails, the returned error names
\* the error of the last attempted strategy, whether that attempt raised or
\* ended without a usable file.
C3_Original ==
    (/\ Returned /\ kind \in {DV, VS} /\ phase = "main"
     /\ EveryCallFailed /\ Len(calls) = Len(MainStrategies)) =>
        result.error \in {AllStrategiesFailedError(AttemptError(outcome)),
                          PrimaryStrategyFailedError(AttemptError(outcome))}

\* C4 as stated: every public request ends by returning a structured outcome,
\* no exception reaches the host, and a failure outcome carries an error
\* string.
C4_Original ==
    /\ pc # "raised"
    /\ Returned =>
         /\ "success" \in DOMAIN result
         /\ ~result.success => result.error # None

\* C5: in the video orchestrators a main-strategy download that leaves a
\* usable file is the last main-strategy download of the request, and unless
\* the file is video-only in download_video (which then fetches the audio
\* separately) the request has returned that file as a success.
C5_FirstSuccessWins ==
    kind \in VideoKinds =>
        \A i \in 1..Len(calls) :
            (calls[i].phase = "main" /\ calls[i].res = "ok") =>
                /\ \A j \in (i + 1)..Len(calls) : calls[j].phase # "main"
                /\ phase = "main" =>
                     /\ Returned
                     /\ result.success
                     /\ result.file_path = PathOf(outcome.file)

C5_Witness ==
    /\ Returned /\ kind = DV /\ phase = "main"
    /\ Len(calls) = 2 /\ calls[1].res = "fail" /\ calls[2].res = "ok"
    /\ result.success

\* C6 as stated: in the audio orchestrators no download call, the tier-3
\* download included, starts once the flag the loops read is set.
C6_Original ==
    [][(kind \in AudioKinds /\ kind' = kind /\ Len(calls') > Len(calls)) =>
          ~cancelled[PolledFlag(kind)]]_vars

\* The download calls of an audio request, in the order the tiers prescribe.
AudioCallOrder ==
    [i \in 1..Len(AudioOnlyFormats) |-> [phase |-> "tier1", expr |-> AudioOnlyFormats[i]]]
    \o [i \in 1..Len(DashAudioFormats) |-> [phase |-> "tier2", expr |-> DashAudioFormats[i]]]
    \o <<[phase |-> "tier3", expr |-> ExtractionFormat]>>

\* C7: the download calls of an audio request are a prefix of tier 1's
\* expressions, then tier 2's, then the tier-3 selector, each in list order,
\* and every call but the latest failed.
C7_TierOrder ==
    kind \in AudioKinds =>
        /\ Len(calls) <= Len(AudioCallOrder)
        /\ \A i \in 1..Len(calls) :
             /\ calls[i].phase = AudioCallOrder[i].phase
             /\ calls[i].expr = AudioCallOrder[i].expr
             /\ i < Len(calls) => calls[i].res = "fail"
        /\ (calls # <<>> /\ calls[Len(calls)].res = "ok") => Returned

C7_Witness ==
    /\ Returned /\ kind = AH
    /\ Len(calls) = Len(AudioOnlyFormats) + 1
    /\ calls[Len(calls)].phase = "tier2" /\ calls[Len(calls)].res = "ok"
    /\ result.success

\* An audio request that made every download call of the three tiers.
ReachedExtraction ==
    Returned /\ kind \in AudioKinds /\ Len(calls) = Len(AudioCallOrder)

\* C8 as stated: when all three audio tiers fail, the outcome has
\* success=true, needs_extraction=true and a combined-stream file path.
C8_Original ==
    (ReachedExtraction /\ EveryCallFailed) =>
        (result.success /\ result.needs_extraction /\ result.file_path # None)

\* C8 as amended: when every tier-1 and tier-2 expression failed and the
\* tier-3 download leaves a file, the outcome has success=true,
\* needs_extraction=true and that file's path; when the tier-3 download fails
\* as well, the outcome is the failure 'No audio formats available and could
\* not download video for extraction' with needs_extraction=false.
C8_ExtractionFallback ==
    ReachedExtraction =>
        IF calls[Len(calls)].res = "ok"
        THEN /\ result.success /\ result.needs_extraction
             /\ result.file_path = PathOf(outcome.file)
        ELSE /\ ~result.success /\ ~result.needs_extraction
             /\ result.error = NoAudioFormatsError /\ result.file_path = None

C8_Witness ==
    /\ ReachedExtraction /\ kind = AH /\ calls[Len(calls)].res = "ok"
    /\ result.success /\ result.needs_extraction

\* C9: a request returns the 'Download cancelled by user' outcome, with
\* success=false, exactly when it reads its flag set at an attempt boundary:
\* such a request never returns another failure, and no other failure
\* carries that error.
C9_CancelledDistinct ==
    [][(pc # "done" /\ pc' = "done") =>
          /\ (pc = "check" /\ cancelled[PolledFlag(kind)])
                <=> (result'.error = CancelledError)
          /\ result'.error = CancelledError => ~result'.success]_vars

C9_Witness ==
    /\ EndedCancelled /\ ~result.success
    /\ calls # <<>> /\ outcome.kind = "raise" /\ outcome.msg = CancelledError

\* C10 as stated: once the flag of the orchestrator the request was called
\* on is set, the running loop returns the cancelled outcome at its next
\* attempt boundary, without another download call.
C10_Original ==
    [][(pc = "check" /\ cancelled[OrchestratorFlag(kind)] /\ pc' # pc) =>
          (pc' = "done" /\ result'.error = CancelledError /\ calls' = calls)]_vars

\* ------------------------------------------------------------------------
\* Properties of the normalizer
\* ------------------------------------------------------------------------

\* A normalizer has returned.
Normalized == normalizer # "none"

\* The entries of the normalized list that are synthesized pairings.
IsPairedEntry(e) == "is_dash_paired" \in DOMAIN e
PairedEntries == SelectSeq(formats, IsPairedEntry)

\* C11: for every raw catalog and both normalizers, the normalized list has
\* no entry with has_video = false and has_audio = false.
C11_NoEmptyEntry ==
    Normalized =>
        \A i \in 1..Len(formats) : formats[i].has_video \/ formats[i].has_audio

C11_Witness ==
    /\ normalizer = "VideoDownloader"
    /\ Len(catalog) = 3 /\ catalog[2] = Subtitles
    /\ Len(formats) = 2
    /\ \A i \in 1..Len(formats) : formats[i].format_id # Subtitles.format_id

\* The specification's classes of a descriptor: a codec is absent when it
\* is 'none', 'null', null or empty; an audio-only descriptor is a DASH one
\* when its protocol or its format id says DASH/HLS.
SegmentedProtocols == {"http_dash_segments", "m3u8", "m3u8_native"}
SpecAudioOnlyDash(fmt) ==
    /\ CodecPresent(GetOr(fmt.acodec, "none"))
    /\ ~CodecPresent(GetOr(fmt.vcodec, "none"))
    /\ (fmt.protocol \in SegmentedProtocols \/ ContainsDash(fmt.format_id))
SpecVideoOnly(fmt) ==
    /\ CodecPresent(GetOr(fmt.vcodec, "none"))
    /\ ~CodecPresent(GetOr(fmt.acodec, "none"))

\* C12 as stated: when the catalog has exactly one DASH audio-only
\* descriptor and at least one video-only descriptor, get_video_info's list
\* has exactly one paired entry per distinct height of the video-only
\* descriptors, each with has_video = has_audio = true, the id
\* '{video_id}+{audio_id}' and the sum of the two filesizes.
C12_Original ==
    (/\ normalizer = "VideoDownloader"
     /\ Cardinality({i \in 1..Len(catalog) : SpecAudioOnlyDash(catalog[i])}) = 1
     /\ \E i \in 1..Len(catalog) : SpecVideoOnly(catalog[i])) =>
        LET audio == catalog[CHOOSE i \in 1..Len(catalog) : SpecAudioOnlyDash(catalog[i])]
            videos == {catalog[i] : i \in {j \in 1..Len(catalog) : SpecVideoOnly(catalog[j])}}
            heights == {v.height : v \in videos}
        IN  /\ Len(PairedEntries) = Cardinality(heights)
            /\ \A h \in heights :
                 \E k \in 1..Len(PairedEntries) :
                    LET e == PairedEntries[k] IN
                    /\ e.height = h /\ e.has_video /\ e.has_audio
                    /\ \E v \in videos :
                         /\ v.height = h
                         /\ e.format_id = v.format_id \o "+" \o audio.format_id
                         /\ e.filesize = EffectiveFilesize(v) + EffectiveFilesize(audio)

\* The two descriptors of C13's catalog.
ProtocolDashAac(fmt) ==
    /\ fmt.vcodec = "none" /\ fmt.acodec = "aac" /\ fmt.ext = "m4a"
    /\ fmt.protocol = "http_dash_segments"
VideoOnlyAvc1080(fmt) ==
    /\ fmt.vcodec = "avc1" /\ fmt.acodec = "none" /\ fmt.height = 1080
    /\ fmt.ext = "mp4"

\* C13 as stated: a catalog of one audio-only descriptor whose protocol is
\* http_dash_segments and one video-only 1080 descriptor normalizes, whatever
\* the two format ids, to exactly one entry: the pairing
\* '{video_id}+{audio_id}' with label '1080p', has_video and has_audio.
C13_Original ==
    (/\ Normalized /\ Len(catalog) = 2
     /\ \E i, j \in 1..2 : ProtocolDashAac(catalog[i]) /\ VideoOnlyAvc1080(catalog[j])) =>
        LET a == catalog[CHOOSE i \in 1..2 : ProtocolDashAac(catalog[i])]
            v == catalog[CHOOSE j \in 1..2 : VideoOnlyAvc1080(catalog[j])]
        IN  /\ Len(formats) = 1
            /\ formats[1].format_id = v.format_id \o "+" \o a.format_id
            /\ formats[1].quality_label = "1080p"
            /\ formats[1].has_video /\ formats[1].has_audio

\* C14: the normalized list is non-increasing in (has_video, height): no
\* entry has a greater key than an entry before it, so every video entry
\* precedes every audio-only entry and video heights never increase.
C14_Sorted ==
    Normalized =>
        \A i, j \in 1..Len(formats) : i < j => ~KeyGreater(formats[j], formats[i])

C14_Witness ==
    /\ normalizer = "FormatProcessor"
    /\ catalog = <<PlainMp3, Complete360, DirectMp4>>
    /\ Len(formats) = 3
    /\ formats[1].format_id = "direct" /\ formats[2].format_id = "18"
    /\ formats[3].format_id = "mp3-128" /\ ~formats[3].has_video

\* The entries of the list that carry a descriptor's own format id.
EntriesOf(fmt) == SelectSeq(formats, LAMBDA e : e.format_id = fmt.format_id)

\* C15: in both normalizers, (a) a descriptor with both codecs absent and a
\* known video extension appears with has_video = has_audio = true; (b) a
\* descriptor with the audio codec absent and a known audio extension gets
\* has_audio = true from _process_format, every entry made of it has
\* has_audio = true, and it appears when its video codec is absent too; (c) a
\* descriptor with both codecs absent and any other extension is dropped.
C15_Remediation ==
    Normalized =>
        \A i \in 1..Len(catalog) :
            LET d == catalog[i]
                noVideo == ~CodecPresent(GetOr(d.vcodec, "none"))
                noAudio == ~CodecPresent(GetOr(d.acodec, "none"))
                es == EntriesOf(d)
            IN  /\ (noVideo /\ noAudio /\ d.ext \in video_extensions) =>
                      /\ es # <<>>
                      /\ \A k \in 1..Len(es) : es[k].has_video /\ es[k].has_audio
                /\ (noAudio /\ d.ext \in audio_extensions) =>
                      /\ process_format(d) # NoEntry
                      /\ process_format(d).has_audio
                      /\ \A k \in 1..Len(es) : es[k].has_audio
                      /\ noVideo => es # <<>>
                /\ (noVideo /\ noAudio /\ d.ext \notin (video_extensions \cup audio_extensions)) =>
                      es = <<>>

C15_Witness ==
    /\ normalizer = "VideoDownloader"
    /\ catalog = <<Subtitles, BareMp3, DirectMp4>>
    /\ Len(formats) = 2
    /\ formats[1].format_id = "direct" /\ formats[1].has_video /\ formats[1].has_audio
    /\ formats[2].format_id = "aud" /\ formats[2].has_audio

\* ------------------------------------------------------------------------
\* Properties of the audio file validator
\* ------------------------------------------------------------------------

\* The path the k-th call was given.
InputOf(k) == IF k = 1 THEN vinput ELSE vreturns[k - 1]

\* C16: validator idempotence. For every directory and path, validating
\* the path a validation returned gives that same path again and leaves the
\* directory exactly as the first validation left it.
C16_Idempotent ==
    \A k \in 2..Len(vreturns) :
        /\ vreturns[k] = vreturns[k - 1]
        /\ vsnaps[k + 1] = vsnaps[k]

C16_Witness ==
    /\ Len(vreturns) = 2
    /\ vinput = "/out/a.mp4"
    /\ vsnaps[1].files[vinput] = AdtsFile
    /\ vreturns[1] = "/out/a.m4a" /\ vreturns[2] = "/out/a.m4a"
    /\ vsnaps[2] # vsnaps[1]
    /\ vsnaps[2].files["/out/a.m4a"] = AdtsFile

\* C17: validate_audio_file never throws. Every call returns a path, and
\* the path is either the input with the directory untouched, or the path
\* the input file was renamed to by a rename that did not fail.
C17_NeverThrows ==
    \A k \in 1..Len(vreturns) :
        LET p == InputOf(k)
            before == vsnaps[k]
            after == vsnaps[k + 1]
        IN  /\ vreturns[k] \in Paths
            /\ \/ vreturns[k] = p /\ after = before
               \/ /\ vreturns[k] # p
                  /\ ~RenameRaises(before, p, vreturns[k])
                  /\ after.files[vreturns[k]] = before.files[p]
                  /\ after.files[p] = AbsentEntry

C17_Witness ==
    /\ Len(vreturns) = 1
    /\ vinput = "/out/a.mp4"
    /\ vsnaps[1].files[vinput] = AdtsFile
    /\ vsnaps[1].files["/out/a.m4a"] = DirectoryEntry
    /\ vreturns[1] = vinput
    /\ vsnaps[2] = vsnaps[1]

\* C18 as stated: a readable file of at least 1KB that begins with ADTS
\* bytes and is named .m4a or .aac is returned under the .m4a name, the file
\* being at that name afterwards (the rename being one that can succeed).
C18_Original ==
    (/\ Len(vreturns) >= 1
     /\ SplitExt(vinput) \in {".m4a", ".aac"}
     /\ vsnaps[1].files[vinput] = AdtsFile
     /\ ~RenameRaises(vsnaps[1], vinput, RepairedPath(vinput))) =>
        /\ vreturns[1] = RepairedPath(vinput)
        /\ SplitExt(vreturns[1]) = ".m4a"
        /\ vsnaps[2].files[vreturns[1]] = AdtsFile

\* ------------------------------------------------------------------------
\* Properties of the progress tracker
\* ------------------------------------------------------------------------

TerminalStatuses == {"finished", "error"}

\* C19: progress throttling. Any two forwarded updates whose status is
\* neither 'finished' nor 'error' are at least 0.5 seconds apart.
C19_Throttled ==
    \A i, j \in 1..Len(forwarded) :
        (/\ i < j
         /\ forwarded[i].status \notin TerminalStatuses
         /\ forwarded[j].status \notin TerminalStatuses) =>
            forwarded[j].time - forwarded[i].time >= UpdateInterval

C19_Witness ==
    /\ Len(events) = 3 /\ Len(forwarded) = 2
    /\ \A k \in 1..3 : events[k].status = "downloading"
    /\ forwarded[1].event = 1 /\ forwarded[2].event = 3
    /\ events[2].time > events[1].time
    /\ forwarded[2].time - forwarded[1].time = UpdateInterval

\* C20: every event with status 'finished' or 'error' is forwarded to the
\* callback in the very call that delivers it, however recent the last
\* forwarded update is.
C20_TerminalForwarded ==
    callback =>
        \A k \in 1..Len(events) :
            events[k].status \in TerminalStatuses =>
                \E n \in 1..Len(forwarded) :
                    /\ forwarded[n].event = k
                    /\ forwarded[n].status = events[k].status
                    /\ forwarded[n].time = events[k].time

C20_Witness ==
    /\ callback
    /\ Len(forwarded) = 3
    /\ forwarded[1].status = "downloading"
    /\ forwarded[2].status = "finished" /\ forwarded[3].status = "error"
    /\ forwarded[2].time = forwarded[1].time
    /\ forwarded[3].time - forwarded[2].time < UpdateInterval

\* ------------------------------------------------------------------------
\* The classifier, the outcome shapes and the candidate loop (C21..C29)
\* ------------------------------------------------------------------------

\* The classifier has returned.
Analyzed == analysis # NoResult

\* No codec is reported: each is absent, null, 'null', 'none' or empty.
CodecsUnknown(f) ==
    /\ GetOr(f.vcodec, "none") \in {"none", None, "null", ""}
    /\ GetOr(f.acodec, "none") \in {"none", None, "null", ""}

\* C21: the classifier never reports a failure because of codec ambiguity:
\* for a file that exists it returns success = TRUE with the file's path
\* whatever the codec metadata says, and it returns a failure exactly when
\* the file cannot be inspected.
C21_NoFailureOnAmbiguity ==
    Analyzed =>
        /\ analysis.success = afile.exists
        /\ analysis.file_path = PathOf(afile)
        /\ afile.exists => analysis.error = None
        /\ ~afile.exists => analysis.error # None

\* An existing pure-audio-named file with no codec information at all is
\* classified as a success.
C21_Witness ==
    /\ Analyzed
    /\ afile.exists
    /\ CodecsUnknown(afile)
    /\ Lower(afile.ext) \in PureAudioExtensions
    /\ analysis.success

\* The kinds of request that make a metadata query.
QueryingKinds == {DV, DA, AH}

\* The request's latest metadata query raised or returned no information.
MetaQueryFailed == kind \in QueryingKinds /\ meta \in {"raise", "no_info"}

\* C24: a failing metadata query is non-fatal: after a query that raised or
\* returned no information the request has not raised, download_video has
\* made the download call of the strategy it was in, an audio request goes
\* on to tier 1, and a failure outcome comes only from cancellation or from
\* a download call that failed, never with the query's error.
C24_MetaQueryNonFatal ==
    MetaQueryFailed =>
        /\ pc # "raised"
        /\ kind = DV => calls # <<>>
        /\ (kind \in AudioKinds /\ calls = <<>> /\ ~Returned) =>
               (pc = "check" /\ phase = "tier1" /\ idx = 1)
        /\ (Returned /\ ~result.success) =>
               /\ result.error # MetaErrorText(meta)
               /\ \/ result.error = CancelledError
                  \/ (calls # <<>> /\ calls[Len(calls)].res = "fail")

\* An audio request whose query returned no information downloaded a file in
\* tier 1, and a download_video whose query raised is downloading.
C24_Witness ==
    \/ /\ Returned /\ kind = DA /\ meta = "no_info"
       /\ result.success /\ calls # <<>> /\ calls[Len(calls)].phase = "tier1"
    \/ /\ pc = "inflight" /\ kind = DV /\ meta = "raise"

\* The three outcome shapes of the data model.
ShapeCombined(r) ==
    /\ r.success /\ r.file_path # None
    /\ r.video_path = None /\ r.audio_path = None /\ ~r.separate_av
ShapePair(r) ==
    /\ r.success /\ r.separate_av
    /\ r.video_path # None /\ r.audio_path # None
ShapeFailure(r) == ~r.success

\* C22 as stated: every outcome an orchestrator returns is exactly one of a
\* combined file, a video+audio pair with both paths set, or a failure; in
\* particular separate_av = TRUE implies both paths are set.
C22_Original ==
    Returned =>
        /\ \/ ShapeCombined(result) /\ ~ShapePair(result) /\ ~ShapeFailure(result)
           \/ ~ShapeCombined(result) /\ ShapePair(result) /\ ~ShapeFailure(result)
           \/ ~ShapeCombined(result) /\ ~ShapePair(result) /\ ShapeFailure(result)
        /\ result.separate_av =>
               (result.video_path # None /\ result.audio_path # None)

\* C23 as stated: in the shipped configuration a video strategy that raises
\* is recorded and the next candidate is attempted, so a request whose
\* latest attempt raised and that was not cancelled has tried more than one
\* candidate and does not return the fail-immediately error.
C23_Original ==
    (/\ Returned /\ kind \in {DV, VS} /\ phase = "main" /\ calls # <<>>
     /\ outcome.kind = "raise" /\ result.error # CancelledError) =>
        /\ Len(calls) > 1
        /\ result.error # PrimaryStrategyFailedError(outcome.msg)

\* C28 as stated: a VideoHandler request on the repository's FormatProcessor
\* that does not end by cancellation makes at least one download call, and
\* the first call uses the selector expression of the quality token.
C28_Original ==
    (/\ kind \in {VS, VD} /\ fp = "FormatProcessor"
     /\ pc \in {"done", "raised"}
     /\ ~(pc = "done" /\ result.error = CancelledError)) =>
        /\ calls # <<>>
        /\ calls[1].expr = FormatProcessor_get_quality_based_format(quality)

\* Every recorded selection of an unknown token has the expression of
\* 'best', and two selections of one token by one selector agree.
SelectionsConsistent ==
    \A i \in 1..Len(selections) :
        /\ selections[i].quality \notin KnownTokens =>
               selections[i].expr = SelectorExpression(selections[i].selector, "best")
        /\ \A j \in 1..Len(selections) :
               (/\ selections[j].selector = selections[i].selector
                /\ selections[j].quality = selections[i].quality) =>
                   selections[j].expr = selections[i].expr

\* C25: the format selector maps every unknown quality token to the
\* expression of 'best', maps the same token to the same expression on every
\* call, and changes no state: after any number of calls the downloader is
\* as it was constructed.
C25_SelectorDefault ==
    /\ SelectionsConsistent
    /\ DownloadIdle

\* An unknown token was selected twice through the FormatProcessor and got
\* the expression of 'best' both times.
C25_Witness ==
    /\ Len(selections) = 2
    /\ \A i \in 1..2 :
        /\ selections[i].selector = "FormatProcessor"
        /\ selections[i].quality = "4k"
        /\ selections[i].expr = "best"

\* The loop the request is in has a candidate after the current one.
MoreCandidates == HasNext(idx, StrategyList(kind, phase, quality))

\* C26 as stated: in download_video and download_video_with_strategies, if
\* the flag is set while an attempt is in flight and the attempt fails, no
\* further attempt is made and the outcome is the cancelled outcome.
C26_Original ==
    [][(/\ kind \in {DV, VS} /\ pc = "inflight" /\ pc' # "inflight"
        /\ cancelled[PolledFlag(kind)] /\ IsFailure(outcome')) =>
           \/ pc' = "check"
           \/ pc' = "done" /\ result'.error = CancelledError]_vars

\* C26: the video orchestrators poll the flag at the top of every
\* iteration of their loops, supplementary-audio loop included: with the
\* flag set no attempt starts and the loop returns the cancelled outcome.
\* An attempt in flight is not interrupted: if it fails and its loop has a
\* further candidate the request moves to that candidate's poll; if it
\* leaves a file the request returns that file's success, or, in
\* download_video after a video-only file, moves to the first poll of the
\* supplementary-audio loop.
C26_PolledAtEveryIteration ==
    [][(kind \in {DV, VS} /\ cancelled[PolledFlag(kind)] /\ pc' # pc) =>
           /\ pc = "check" =>
                  /\ pc' = "done"
                  /\ result' = BoundaryCancelledResult(kind, phase)
                  /\ calls' = calls
           /\ (pc = "inflight" /\ IsFailure(outcome') /\ MoreCandidates) =>
                  (pc' = "check" /\ phase' = phase /\ idx' = idx + 1)
           /\ (pc = "inflight" /\ ~IsFailure(outcome')) =>
                  \/ /\ pc' = "done" /\ result'.success
                     /\ PathOf(outcome'.file) \in {result'.file_path, result'.audio_path}
                  \/ /\ kind = DV /\ phase = "main"
                     /\ pc' = "check" /\ phase' = "sep_audio" /\ idx' = 1]_vars

\* download_video was cancelled while its first attempt was running: the
\* attempt failed, no second attempt was made and the outcome is cancelled.
C26_Witness ==
    /\ Returned /\ kind = DV /\ ~setBefore /\ lateCancel
    /\ Len(calls) = 1 /\ calls[1].res = "fail"
    /\ result.error = CancelledError

\* C27 as stated: a cancel() that arrives after a VideoDownloader request
\* was called is never lost: the request does not clear the flag while it
\* runs, and it returns either the cancelled outcome or a success.
C27_Original ==
    /\ (kind \in TopLevelKinds /\ lateCancel /\ RequestRunning) =>
           cancelled[OrchestratorFlag(kind)]
    /\ (Returned /\ kind \in TopLevelKinds /\ lateCancel) =>
           (result.error = CancelledError \/ result.success)

\* The latest download call of the request.
LastCall == calls[Len(calls)]

\* C29: an audio outcome has needs_extraction = TRUE exactly when the
\* tier-3 download left a file after every tier-1 and tier-2 expression
\* failed; such an outcome is a success with that file's path, and every
\* tier-1 or tier-2 success has needs_extraction = FALSE.
C29_ExtractionFlagOnlyTier3 ==
    (Returned /\ kind \in AudioKinds) =>
        /\ result.needs_extraction <=>
               (calls # <<>> /\ LastCall.phase = "tier3" /\ LastCall.res = "ok")
        /\ result.needs_extraction =>
               /\ result.success
               /\ result.file_path = PathOf(outcome.file)
               /\ Len(calls) = Len(AudioCallOrder)
               /\ \A i \in 1..(Len(calls) - 1) : calls[i].res = "fail"
        /\ (calls # <<>> /\ LastCall.res = "ok" /\ LastCall.phase # "tier3") =>
               (result.success /\ ~result.needs_extraction)

\* download_audio returned the tier-3 file flagged for extraction after its
\* seventeen tier-1 and tier-2 calls failed.
C29_Witness ==
    /\ Returned /\ kind = DA /\ calls # <<>>
    /\ LastCall.phase = "tier3" /\ LastCall.res = "ok"
    /\ result.needs_extraction /\ result.file_path = PathOf(outcome.file)

\* ------------------------------------------------------------------------
\* The classifier rule and the normalizer (C32..C40)
\* ------------------------------------------------------------------------

\* A codec of the classified file is reported: the value read with
\* .get(key, 'none') is none of the absent representations.
ReportsCodec(codec) == GetOr(codec, "none") \notin {"none", None, "null", ""}

\* The rule as the classifier's contract words it.
RuleHasAudio(f) ==
    ReportsCodec(f.acodec)
        \/ Lower(f.ext) \in {".mp4", ".mkv", ".avi", ".mov", ".webm", ".flv"}
RuleHasVideo(f) ==
    ReportsCodec(f.vcodec)
        \/ Lower(f.ext) \notin {".mp3", ".aac", ".m4a", ".wav", ".ogg"}

\* The file a video request classified: the one its main-loop download
\* left, kept in video_file once download_video has gone on to fetch the
\* audio.
ClassifiedFile ==
    IF kind = DV /\ phase = "sep_audio" THEN video_file ELSE outcome.file

\* The request returned after classifying a downloaded file.
FileClassified ==
    /\ Returned /\ kind \in {DV, VS} /\ calls # <<>>
    /\ \/ kind = DV /\ phase = "sep_audio"
       \/ phase = "main" /\ LastCall.res = "ok"

\* C32 as stated: in VideoHandler._analyze_downloaded_file and in
\* download_video, has_audio is (audio codec present) or (container
\* extension) and has_video is (video codec present) or (not a pure-audio
\* extension); video without audio gives a success flagged
\* needs_audio_extraction and separate_av with video_path set, every other
\* combination a success with the single path and separate_av = FALSE.
C32_Original ==
    FileClassified =>
        /\ result.success
        /\ IF RuleHasVideo(ClassifiedFile) /\ ~RuleHasAudio(ClassifiedFile)
           THEN /\ result.separate_av
                /\ "needs_audio_extraction" \in DOMAIN result
                /\ result.needs_audio_extraction
                /\ result.video_path = PathOf(ClassifiedFile)
           ELSE /\ result.file_path = PathOf(ClassifiedFile)
                /\ ~result.separate_av
                /\ result.video_path = None

\* The representations of an absent codec: the texts 'none' and 'null', the
\* empty string, JSON null and no key at all.
AbsentCodecs == {"none", "null", "", None, Missing}

\* The catalogs that differ from c in one codec field of one descriptor,
\* an absent representation replaced by another.
AbsentVariants(c) ==
    {[c EXCEPT ![i].vcodec = a] :
        i \in {k \in 1..Len(c) : c[k].vcodec \in AbsentCodecs}, a \in AbsentCodecs}
    \cup
    {[c EXCEPT ![i].acodec = a] :
        i \in {k \in 1..Len(c) : c[k].acodec \in AbsentCodecs}, a \in AbsentCodecs}

\* What C33 compares of a normalized list: which entries it has, their
\* flags and which are pairings.
EntrySummary(list) ==
    [i \in 1..Len(list) |->
        <<list[i].format_id, list[i].has_video, list[i].has_audio, IsPairedEntry(list[i])>>]

\* C33 as stated: for get_video_info's normalizer, replacing one absent
\* representation of a descriptor's video or audio codec by another changes
\* neither the entries of the normalized list, nor their has_video and
\* has_audio flags, nor which descriptors are paired.
C33_Original ==
    normalizer = "VideoDownloader" =>
        \A c \in AbsentVariants(catalog) :
            EntrySummary(VideoDownloader_extract_format_info(c)) = EntrySummary(formats)

\* The positions of the catalog that hold an audio-only DASH descriptor, as
\* the first pass recognises one, and those that hold a video-only one.
DashAudioPositions == {i \in 1..Len(catalog) : IsDashAudio(catalog[i])}
VideoOnlyPositions == {i \in 1..Len(catalog) : IsVideoOnly(catalog[i])}

\* C34 as stated: get_video_info's list has an entry with is_dash_paired
\* only when the catalog holds exactly one audio-only DASH descriptor and at
\* least one video-only descriptor; with two or more audio-only DASH
\* descriptors, or with none, no entry is a pairing.
C34_Original ==
    (normalizer = "VideoDownloader" /\ PairedEntries # <<>>) =>
        /\ Cardinality(DashAudioPositions) = 1
        /\ VideoOnlyPositions # {}

\* A descriptor with an audio codec and no video codec, one with both.
AudioOnlyDescriptor(fmt) ==
    /\ CodecPresent(GetOr(fmt.acodec, "none"))
    /\ ~CodecPresent(GetOr(fmt.vcodec, "none"))
CompleteDescriptor(fmt) ==
    /\ CodecPresent(GetOr(fmt.acodec, "none"))
    /\ CodecPresent(GetOr(fmt.vcodec, "none"))

\* The descriptor is the audio half of a pairing of the normalized list.
ConsumedByPairing(fmt) ==
    \E k \in 1..Len(PairedEntries) : PairedEntries[k].audio_format_id = fmt.format_id

\* The normalized list has an individual entry made of the descriptor.
HasOwnEntry(fmt) ==
    \E k \in 1..Len(formats) :
        ~IsPairedEntry(formats[k]) /\ formats[k].format_id = fmt.format_id

\* C35 as stated: in get_video_info's list every complete descriptor, and
\* every audio-only descriptor that is not the audio half of a pairing (an
\* audio-only DASH descriptor of a catalog without video-only descriptors
\* included), appears as an individual entry of its own.
C35_Original ==
    normalizer = "VideoDownloader" =>
        \A i \in 1..Len(catalog) :
            (\/ CompleteDescriptor(catalog[i])
             \/ AudioOnlyDescriptor(catalog[i]) /\ ~ConsumedByPairing(catalog[i]))
                => HasOwnEntry(catalog[i])

\* C36 as stated: when at least one descriptor of the catalog resolves to
\* having video or audio, the list get_video_info returns is not empty.
C36_Original ==
    normalizer = "VideoDownloader" =>
        ((\E i \in 1..Len(catalog) :
              ResolvedFlags(catalog[i]).has_video \/ ResolvedFlags(catalog[i]).has_audio)
            => formats # <<>>)

\* The video-only descriptors of one height, by position in the catalog.
VideoOnlyAt(h) == {i \in VideoOnlyPositions : catalog[i].height = h}

\* C37: when get_video_info's normalizer pairs, there is for each distinct
\* height among the video-only descriptors one paired entry of that height;
\* its video half is the video-only descriptor of that height with the
\* highest tbr (a missing tbr counting as 0), the earliest in the catalog
\* among equals, and its tbr is that descriptor's tbr plus the tbr of the
\* DASH audio descriptor it is paired with.
C37_BestBitratePerHeight ==
    (normalizer = "VideoDownloader" /\ DashAudioPositions # {}) =>
        \A h \in {catalog[i].height : i \in VideoOnlyPositions} :
            \E k \in 1..Len(PairedEntries) :
                LET e == PairedEntries[k] IN
                /\ e.height = h
                /\ \A n \in 1..Len(PairedEntries) : PairedEntries[n].height = h => n = k
                /\ \E i \in VideoOnlyAt(h) :
                      /\ \A j \in VideoOnlyAt(h) : catalog[j].tbr <= catalog[i].tbr
                      /\ \A j \in VideoOnlyAt(h) : j < i => catalog[j].tbr < catalog[i].tbr
                      /\ e.video_format_id = catalog[i].format_id
                      /\ e.vcodec = catalog[i].vcodec
                      /\ \E a \in DashAudioPositions :
                            /\ e.audio_format_id = catalog[a].format_id
                            /\ e.tbr = catalog[i].tbr + catalog[a].tbr

\* Two 1080 streams of unequal bitrate and a DASH audio stream: the pairing
\* is made of the second, faster one and carries the summed bitrate.
C37_Witness ==
    /\ normalizer = "VideoDownloader"
    /\ catalog = <<VideoOnly1080, VideoOnly1080HighRate, AudioDashById>>
    /\ Len(formats) = 1
    /\ formats[1].video_format_id = "299"
    /\ formats[1].tbr = 6128

\* The catalog positions of the descriptors an entry is made of: the two
\* halves of a pairing, or the descriptor that carries the entry's id.
SourcePositions(e) ==
    IF IsPairedEntry(e)
    THEN {p \in 1..Len(catalog) :
             catalog[p].format_id \in {e.video_format_id, e.audio_format_id}}
    ELSE {p \in 1..Len(catalog) : catalog[p].format_id = e.format_id}

\* C38 as stated: the sort breaks ties by catalog order.  Of two entries of
\* the normalized list with the same (has_video, height), the one that
\* comes first is made of a descriptor that does not come after the
\* descriptors of the other in the raw catalog.
C38_Original ==
    Normalized =>
        \A i, j \in 1..Len(formats) :
            (/\ i < j
             /\ formats[i].has_video = formats[j].has_video
             /\ formats[i].height = formats[j].height) =>
                \E p \in SourcePositions(formats[i]), q \in SourcePositions(formats[j]) :
                    p <= q

\* The descriptor an individual entry of the list was made of.
SourceOf(e) ==
    catalog[CHOOSE p \in 1..Len(catalog) : catalog[p].format_id = e.format_id]

\* The descriptor reports no height or no width; it reports no resolution
\* text either.
LacksSize(d) == d.height = 0 \/ d.width = 0
LacksResolutionText(d) == GetOr(d.resolution, "unknown") \in {"unknown", None, "null"}

\* The entry's sort height is one a descriptor reported.
MeasuredEntry(e) == e.height > 0 /\ e.height < OriginalQualityHeight

\* The positions of the individual (unpaired) entries of the list.
IndividualPositions == {k \in 1..Len(formats) : ~IsPairedEntry(formats[k])}

\* Entry k is labelled 'Original Quality', its sort height exceeds every
\* height a descriptor reports and it precedes every measured entry.
IsOriginalQuality(k) ==
    /\ formats[k].quality_label = "Original Quality"
    /\ \A d \in Descriptors : d.height < formats[k].height
    /\ \A j \in 1..Len(formats) : MeasuredEntry(formats[j]) => k < j

\* Entry k is labelled and sorted as an audio-only entry.
IsAudioOnlyLabelled(k) ==
    formats[k].height = 0 /\ formats[k].quality_label = "Audio Only"

\* C39 as stated: in both normalizers every entry made of a video-bearing
\* descriptor that lacks a height or a width is labelled 'Original Quality'
\* with a sort height above every measured one and precedes all measured
\* entries; every audio-only entry has height 0 and label 'Audio Only'.
C39_Original ==
    Normalized =>
        \A k \in IndividualPositions :
            /\ (formats[k].has_video /\ LacksSize(SourceOf(formats[k]))) =>
                   IsOriginalQuality(k)
            /\ ~formats[k].has_video => IsAudioOnlyLabelled(k)

\* C39, amended: the 'Original Quality' label and the synthetic height go to
\* the video-bearing descriptors that lack a height or a width and report
\* no resolution text either; one that reports a resolution text is
\* labelled with that text and keeps the height it reported.  Every
\* audio-only entry has height 0 and label 'Audio Only'.
C39_OriginalQualityWithoutResolution ==
    Normalized =>
        \A k \in IndividualPositions :
            LET e == formats[k]
                d == SourceOf(e)
            IN  /\ (e.has_video /\ LacksSize(d) /\ LacksResolutionText(d)) =>
                       IsOriginalQuality(k)
                /\ (e.has_video /\ LacksSize(d) /\ ~LacksResolutionText(d)) =>
                       /\ e.quality_label = d.resolution
                       /\ e.height = d.height
                /\ ~e.has_video => IsAudioOnlyLabelled(k)

\* A direct link without any size, a stream of known height and unknown
\* width with a resolution text, and an audio stream: the first is
\* 'Original Quality' and leads, the second is labelled '480p' at height
\* 480, the third is 'Audio Only' at height 0.
C39_Witness ==
    /\ normalizer = "VideoDownloader"
    /\ catalog = <<PlainMp3, Complete480NoWidth, DirectMp4>>
    /\ Len(formats) = 3
    /\ formats[1].format_id = "direct" /\ formats[1].quality_label = "Original Quality"
    /\ formats[1].height = OriginalQualityHeight
    /\ formats[2].format_id = "hls-480" /\ formats[2].quality_label = "480p"
    /\ formats[2].height = 480
    /\ formats[3].format_id = "mp3-128" /\ formats[3].quality_label = "Audio Only"
    /\ formats[3].height = 0

\* C40 as stated: with events delivered from several threads to one
\* tracker, no two forwarded updates whose status is neither 'finished' nor
\* 'error' were read within one 0.5 second window: two threads never both
\* pass the comparison against last_update_time and both forward.
C40_Original ==
    \A i, j \in 1..Len(forwarded) :
        (/\ i < j
         /\ forwarded[i].status \notin TerminalStatuses
         /\ forwarded[j].status \notin TerminalStatuses) =>
            \/ forwarded[j].time - forwarded[i].time >= UpdateInterval
            \/ forwarded[i].time - forwarded[j].time >= UpdateInterval

====
